---- MODULE Spec2Model ----
(***************************************************************************)
(* Model of the fiscal-report extraction pipeline: the keyword classifier, *)
(* the three agency parsers (Receita Federal, FGTS, SEFAZ), the            *)
(* ResultadoParsers accumulator and the consolidation of the report.       *)
(*                                                                         *)
(* Representation.  A Python str is a sequence of one-character strings;   *)
(* an accented letter is written as an ASCII digraph ("a~" is a-tilde,     *)
(* "c," is c-cedilla, "e'" is e-acute, "o^" is o-circumflex).  A document  *)
(* text is a sequence of non-empty lines, standing for the lines joined by *)
(* "\n"; the empty text is the empty sequence.  Monetary amounts are       *)
(* integers in centavos.                                                   *)
(***************************************************************************)
EXTENDS Integers, Sequences, FiniteSets, TLC

VARIABLES
    \* DocumentClassifier.classify: the call's arguments and its return value
    cTexto, cDebugLines, cRes,
    \* ResultadoParsers: the accumulator object; the dict handed to
    \* mesclar_no_dados, as it is now and as it was at the call; whether
    \* mesclar_no_dados has returned; the return value of tem_algum_dado
    resultado, dados, dadosAntes, mesclado, retTem,
    \* processar_sefaz: the call's arguments and its outcome
    sTexto, sTabelas, sRes,
    \* processar_receita: the call's arguments and its return value
    rTexto, rTabelas, rRes,
    \* a session of parser calls on one accumulator: the calls made so far
    chamadas,
    \* gerar_relatorio_consolidado: the argument caminhos_pdf (indices of PDFs),
    \* the list resultados of what processar_documento returned, the report
    \* returned, the exception that ended the call
    caminhos, resultados, relatorio, excecao,
    \* processar_fgts: the call's argument and its return value
    fTexto, fRes,
    \* the reviewer's form: the values in st.session_state at submission and the
    \* copy of receita_federal written to form_data
    sessionState, formReceita,
    \* interpretar_todos: the three path arguments and the accumulator returned
    tReceitaPdf, tFgtsPdf, tSefazPdf, tRet,
    \* consolidar_previdencia: the argument resultados and the summary returned
    pResultados, pResumo,
    \* the action 'Ler PDFs' of the app: the uploads, the temporary files on disk, how the action ended and st.session_state['resultado_parsers']
    lUploads, lTmp, lSaida, lResultado,
    \* utils: the amount handed to formatar_moeda_br, the text handed to converter_valor_br_para_float and the value it returned
    mValor, mTexto, mVolta,
    \* normalizar_competencia: the argument, what the call returned and what the call on that value returned
    nComp, nRes, nDeNovo

\* Python's None, for a field whose other values are words ("REGULAR", "seguro")
None == "None"

\* Optional[T] for T a number, a string of characters, a list or a record:
\* NoneOpt is None and Some(v) is the value v
NoneOpt == <<>>

Some(v) == <<v>>

\* ------------------------------------------------------------------------
\* Strings
\* ------------------------------------------------------------------------
LowerChars == <<"a","b","c","d","e","f","g","h","i","j","k","l","m","n","o","p","q","r","s",
    "t","u","v","w","x","y","z","a~","a'","a^","c,","e'","e^","i'","o~","o'","o^","u'">>

UpperChars == <<"A","B","C","D","E","F","G","H","I","J","K","L","M","N","O","P","Q","R","S",
    "T","U","V","W","X","Y","Z","A~","A'","A^","C,","E'","E^","I'","O~","O'","O^","U'">>

Digits == {"0","1","2","3","4","5","6","7","8","9"}

\* str.lower() and str.upper(), one character
lower_char(c) ==
    IF \E i \in 1..Len(UpperChars) : UpperChars[i] = c
    THEN LowerChars[CHOOSE i \in 1..Len(UpperChars) : UpperChars[i] = c]
    ELSE c

upper_char(c) ==
    IF \E i \in 1..Len(LowerChars) : LowerChars[i] = c
    THEN UpperChars[CHOOSE i \in 1..Len(LowerChars) : LowerChars[i] = c]
    ELSE c

\* F(v): the parameter of F holds the value v, a local value of the code
seja(v, F(_)) == F(v)

\* the sequence f, a function on 1..n, as a tuple: TLC evaluates its
\* elements once rather than at every use
tupla(f) == f \o <<>>

str_lower(s) == tupla([i \in 1..Len(s) |-> lower_char(s[i])])

str_upper(s) == tupla([i \in 1..Len(s) |-> upper_char(s[i])])

\* Python's "k in s" on two strings
str_in(k, s) == \E i \in 0..(Len(s) - Len(k)) : SubSeq(s, i + 1, i + Len(k)) = k

\* texto.lower() and texto.upper() on a text, line by line
text_lower(t) == tupla([i \in 1..Len(t) |-> str_lower(t[i])])

text_upper(t) == tupla([i \in 1..Len(t) |-> str_upper(t[i])])

\* "k in texto" for a keyword k that holds no line break
text_in(k, t) == \E i \in 1..Len(t) : str_in(k, t[i])

\* every text of at most n lines drawn from the lines of vocabulary voc
Textos(voc, n) == UNION {[1..m -> {voc[i] : i \in 1..Len(voc)}] : m \in 0..n}

Range(s) == {s[i] : i \in 1..Len(s)}

\* " \t\n" and the like: the characters str.strip() removes and \s matches
Whitespace == {" ", "\t", "\n"}

Min(a, b) == IF a <= b THEN a ELSE b

\* ------------------------------------------------------------------------
\* Regular expressions (Python's re, as the parsers use it)
\* ------------------------------------------------------------------------
\* A pattern is a sequence of items.  An item of kind "ch" matches between
\* min and max characters (max < 0: no limit) that are in set s (neg FALSE)
\* or outside it (neg TRUE), as many as possible, or as few when lazy.  The
\* zero-width items are "la", a lookahead for one of the patterns of s or,
\* when neg, the end of the string, and "wb", a word boundary.
Ch(S, mn, mx) == [k |-> "ch", neg |-> FALSE, s |-> S, min |-> mn, max |-> mx, lazy |-> FALSE]

NotCh(S, mn, mx) == [k |-> "ch", neg |-> TRUE, s |-> S, min |-> mn, max |-> mx, lazy |-> FALSE]

Lazy(item) == [item EXCEPT !.lazy = TRUE]

Lookahead(alts, fim) == [k |-> "la",
        neg |-> fim, s |-> alts, min |-> 0, max |-> 0, lazy |-> FALSE]

WordBoundary == [k |-> "wb", neg |-> FALSE, s |-> {}, min |-> 0, max |-> 0, lazy |-> FALSE]

\* a literal string; LitI is the literal under re.IGNORECASE
Lit(str) == tupla([i \in 1..Len(str) |-> Ch({str[i]}, 1, 1)])

LitI(str) ==
    tupla([i \in 1..Len(str) |-> Ch({lower_char(str[i]), upper_char(str[i])}, 1, 1)])

\* LitI with every " " of str standing for \s+
LitIS(str) ==
    tupla([i \in 1..Len(str) |->
              IF str[i] = " " THEN Ch(Whitespace, 1, -1)
              ELSE Ch({lower_char(str[i]), upper_char(str[i])}, 1, 1)])

\* [\d\.] and \w on the characters of the model
DigitDot == Digits \cup {"."}

WordChars == Digits \cup Range(LowerChars) \cup Range(UpperChars) \cup {"_"}

\* "." without and with re.DOTALL, zero or more, lazy: ".*?"
AnyLazy == Lazy(NotCh({"\n"}, 0, -1))

AnyLazyDotAll == Lazy(NotCh({}, 0, -1))

ch_casa(item, c) == (c \in item.s) # item.neg

is_word(s, p) == p >= 1 /\ p <= Len(s) /\ s[p] \in WordChars

\* the least element of a non-empty set of integers
menor(S) ==
    IF Cardinality(S) = 1 THEN CHOOSE m \in S : TRUE
    ELSE CHOOSE m \in S : \A o \in S : m <= o

\* the number of characters from position p on that item can take, at least
\* n: the characters are looked at thirty-two at a time
RECURSIVE rx_run(_, _, _, _)
RECURSIVE rx_run_ate(_, _, _, _, _)
rx_run(item, s, p, n) ==
    rx_run_ate(item, s, p, n,
               IF item.max >= 0 THEN Min(item.max, Len(s) - p + 1) ELSE Len(s) - p + 1)

\* rx_run with the limit lim of the count
rx_run_ate(item, s, p, n, lim) ==
    seja(Min(n + 32, lim), LAMBDA fim :
        seja({m \in n..(fim - 1) : ~ch_casa(item, s[p + m])}, LAMBDA param :
            IF param # {} THEN menor(param)
            ELSE IF fim = lim THEN lim
            ELSE rx_run_ate(item, s, p, fim, lim)))

\* the item matches exactly one character
um_caractere(item) == item.k = "ch" /\ item.min = 1 /\ item.max = 1

\* the step with which a range of n counts or positions is gone through
passo_de(n) == IF n <= 8 THEN 1 ELSE IF n <= 64 THEN 8 ELSE 64

\* the positions pos before those of the match r of the rest, when there is one
precedido(pos, r) == IF r = <<>> THEN <<>> ELSE pos \o r

\* the match of items k.. of rx at position p of s, as the backtracking
\* matcher finds it: the position each item starts at and the position the
\* match ends at, or <<>> when there is none.  A run of items that match one
\* character each is matched at once.
RECURSIVE rx_casa(_, _, _, _)
RECURSIVE rx_tenta(_, _, _, _, _, _, _)
RECURSIVE rx_alt(_, _, _, _)
rx_casa(rx, s, k, p) ==
    IF k > Len(rx) THEN <<p>>
    ELSE IF rx[k].k = "la"
    THEN IF rx_alt(rx[k].s, s, p, 1).alt # 0 \/ (rx[k].neg /\ p = Len(s) + 1)
         THEN precedido(<<p>>, rx_casa(rx, s, k + 1, p))
         ELSE <<>>
    ELSE IF rx[k].k = "wb"
    THEN IF is_word(s, p - 1) # is_word(s, p)
         THEN precedido(<<p>>, rx_casa(rx, s, k + 1, p))
         ELSE <<>>
    ELSE IF um_caractere(rx[k])
    THEN seja(menor({j \in (k + 1)..(Len(rx) + 1) :
                       j = Len(rx) + 1 \/ ~um_caractere(rx[j])}) - k, LAMBDA n :
             IF /\ p + n - 1 <= Len(s)
                /\ \A j \in 0..(n - 1) : ch_casa(rx[k + j], s[p + j])
             THEN precedido([j \in 1..n |-> p + j - 1], rx_casa(rx, s, k + n, p + n))
             ELSE <<>>)
    ELSE seja(rx_run(rx[k], s, p, 0), LAMBDA run :
             IF run < rx[k].min THEN <<>>
             ELSE rx_tenta(rx, s, k, p,
                           IF rx[k].lazy THEN rx[k].min ELSE run,
                           IF rx[k].lazy THEN run ELSE rx[k].min,
                           passo_de(run - rx[k].min + 1)))

\* item k taking c characters, then more (lazy) or fewer up to the count
\* ate: the match with the first count with which the rest of rx matches.
\* With a step above one the counts are gone through a stretch at a time.
rx_tenta(rx, s, k, p, c, ate, passo) ==
    IF (rx[k].lazy /\ c > ate) \/ (~rx[k].lazy /\ c < ate) THEN <<>>
    ELSE seja(IF passo = 1 THEN precedido(<<p>>, rx_casa(rx, s, k + 1, p + c))
             ELSE IF rx[k].lazy
             THEN rx_tenta(rx, s, k, p, c, Min(c + passo - 1, ate), passo \div 8)
             ELSE rx_tenta(rx, s, k, p, c, IF c - passo + 1 > ate THEN c - passo + 1 ELSE ate,
                           passo \div 8),
             LAMBDA r :
                 IF r # <<>> THEN r
                 ELSE rx_tenta(rx, s, k, p, IF rx[k].lazy THEN c + passo ELSE c - passo,
                               ate, passo))

\* the alternatives of a pattern, tried in order at one position:
\* [alt |-> index of the alternative, pos |-> its positions], alt = 0 for none
rx_alt(alts, s, p, a) ==
    IF a > Len(alts) THEN [alt |-> 0, pos |-> <<>>]
    ELSE seja(rx_casa(alts[a], s, 1, p), LAMBDA r :
             IF r # <<>> THEN [alt |-> a, pos |-> r] ELSE rx_alt(alts, s, p, a + 1))

\* re.match(alts, s) and re.search(alts, s[p - 1:]): the leftmost match
re_match(alts, s) == rx_alt(alts, s, 1, 1)

\* the match at the first of the positions p..ate that has one; with a step
\* above one the positions are gone through a stretch at a time
RECURSIVE re_search_ate(_, _, _, _, _)
re_search_ate(alts, s, p, ate, passo) ==
    IF p > ate THEN [alt |-> 0, pos |-> <<>>]
    ELSE seja(IF passo = 1 THEN rx_alt(alts, s, p, 1)
             ELSE re_search_ate(alts, s, p, Min(p + passo - 1, ate), passo \div 8),
             LAMBDA r :
                 IF r.alt # 0 THEN r ELSE re_search_ate(alts, s, p + passo, ate, passo))

re_search_from(alts, s, p) ==
    re_search_ate(alts, s, p, Len(s) + 1, passo_de(Len(s) + 2 - p))

re_search(alts, s) == re_search_from(alts, s, 1)

\* the text items i..(j - 1) of match m took
grupo(s, m, i, j) == SubSeq(s, m.pos[i], m.pos[j] - 1)

\* the position match m ends at
fim_de(m) == m.pos[Len(m.pos)]

\* re.finditer(alts, s): the successive matches, none of them empty
RECURSIVE re_finditer_from(_, _, _)
re_finditer_from(alts, s, p) ==
    seja(re_search_from(alts, s, p), LAMBDA m :
        IF m.alt = 0 THEN <<>> ELSE <<m>> \o re_finditer_from(alts, s, fim_de(m)))

re_finditer(alts, s) == re_finditer_from(alts, s, 1)

\* re.sub(alts, "", s): s without the matches ms[i..], from position p on
RECURSIVE sem_matches(_, _, _, _)
sem_matches(s, ms, i, p) ==
    IF i > Len(ms) THEN SubSeq(s, p, Len(s))
    ELSE SubSeq(s, p, ms[i].pos[1] - 1) \o sem_matches(s, ms, i + 1, fim_de(ms[i]))

re_sub_vazio(alts, s) == sem_matches(s, re_finditer(alts, s), 1, 1)

\* the text the items of pattern corpo took, corpo following prefixo in the
\* alternative that matched
grupo_apos(s, m, prefixo, corpo) ==
    grupo(s, m, Len(prefixo) + 1, Len(prefixo) + Len(corpo) + 1)

\* ------------------------------------------------------------------------
\* DocumentClassifier (core.py)
\* ------------------------------------------------------------------------
KEYWORDS_RECEITA == <<
    \* 1: "receita federal"
    <<"r","e","c","e","i","t","a"," ","f","e","d","e","r","a","l">>,
    \* 2: "e-cac"
    <<"e","-","c","a","c">>,
    \* 3: "integra contador"
    <<"i","n","t","e","g","r","a"," ","c","o","n","t","a","d","o","r">>,
    \* 4: "situac,a~o fiscal"
    <<"s","i","t","u","a","c,","a~","o"," ","f","i","s","c","a","l">>,
    \* 5: "sief"
    <<"s","i","e","f">>,
    \* 6: "cp-patronal"
    <<"c","p","-","p","a","t","r","o","n","a","l">>,
    \* 7: "cp-terceiros"
    <<"c","p","-","t","e","r","c","e","i","r","o","s">>,
    \* 8: "cp-segur"
    <<"c","p","-","s","e","g","u","r">>,
    \* 9: "pgfn"
    <<"p","g","f","n">>,
    \* 10: "procuradoria-geral da fazenda nacional"
    <<"p","r","o","c","u","r","a","d","o","r","i","a","-","g","e","r","a","l"," ","d","a"," ","f",
      "a","z","e","n","d","a"," ","n","a","c","i","o","n","a","l">>
  >>

KEYWORDS_FGTS == <<
    \* 1: "certificado de regularidade do fgts"
    <<"c","e","r","t","i","f","i","c","a","d","o"," ","d","e"," ","r","e","g","u","l","a","r","i",
      "d","a","d","e"," ","d","o"," ","f","g","t","s">>,
    \* 2: "crf"
    <<"c","r","f">>,
    \* 3: "fundo de garantia"
    <<"f","u","n","d","o"," ","d","e"," ","g","a","r","a","n","t","i","a">>,
    \* 4: "fgts"
    <<"f","g","t","s">>,
    \* 5: "caixa econo^mica federal"
    <<"c","a","i","x","a"," ","e","c","o","n","o^","m","i","c","a"," ","f","e","d","e","r","a","l">>
  >>

KEYWORDS_SEFAZ == <<
    \* 1: "certida~o de regularidade fiscal"
    <<"c","e","r","t","i","d","a~","o"," ","d","e"," ","r","e","g","u","l","a","r","i","d","a",
      "d","e"," ","f","i","s","c","a","l">>,
    \* 2: "sefaz"
    <<"s","e","f","a","z">>,
    \* 3: "secretaria da fazenda"
    <<"s","e","c","r","e","t","a","r","i","a"," ","d","a"," ","f","a","z","e","n","d","a">>,
    \* 4: "ipva"
    <<"i","p","v","a">>,
    \* 5: "icms"
    <<"i","c","m","s">>,
    \* 6: "fronteira"
    <<"f","r","o","n","t","e","i","r","a">>
  >>

\* NenhumaKeyword: "Nenhuma palavra-chave conhecida encontrada"
NenhumaKeyword ==
    <<"N","e","n","h","u","m","a"," ","p","a","l","a","v","r","a","-","c","h","a","v","e"," ","c",
      "o","n","h","e","c","i","d","a"," ","e","n","c","o","n","t","r","a","d","a">>

\* "for keyword in kws: if keyword in texto_lower: return": the index of the
\* first keyword of the list found in the text, 0 when the loop ends unmatched
RECURSIVE primeira_keyword(_, _, _)
primeira_keyword(kws, texto_lower, i) ==
    IF i > Len(kws) THEN 0
    ELSE IF text_in(kws[i], texto_lower) THEN i
    ELSE primeira_keyword(kws, texto_lower, i + 1)

\* the mutated classifier: the FGTS list is tried before the Receita list
classify_fgts_primeiro(texto, debug_lines) ==
    LET texto_lower == text_lower(texto)
        f == primeira_keyword(KEYWORDS_FGTS, texto_lower, 1)
        r == primeira_keyword(KEYWORDS_RECEITA, texto_lower, 1)
        s == primeira_keyword(KEYWORDS_SEFAZ, texto_lower, 1)
    IN  IF f > 0 THEN [doc_type |-> "fgts", confidence_reason |-> KEYWORDS_FGTS[f],
                       debug_text_head |-> NoneOpt]
        ELSE IF r > 0 THEN [doc_type |-> "receita_federal",
                            confidence_reason |-> KEYWORDS_RECEITA[r],
                            debug_text_head |-> NoneOpt]
        ELSE IF s > 0 THEN [doc_type |-> "sefaz", confidence_reason |-> KEYWORDS_SEFAZ[s],
                            debug_text_head |-> NoneOpt]
        ELSE [doc_type |-> "desconhecido",
              confidence_reason |-> NenhumaKeyword,
              debug_text_head |-> Some(SubSeq(texto, 1, Min(debug_lines, Len(texto))))]

\* classify(texto, debug_lines).  confidence_reason holds the keyword the
\* message "Palavra-chave encontrada: '<keyword>'" quotes.
classify(texto, debug_lines) ==
    LET texto_lower == text_lower(texto)
        debug_head == SubSeq(texto, 1, Min(debug_lines, Len(texto)))
        r == primeira_keyword(KEYWORDS_RECEITA, texto_lower, 1)
        f == primeira_keyword(KEYWORDS_FGTS, texto_lower, 1)
        s == primeira_keyword(KEYWORDS_SEFAZ, texto_lower, 1)
    IN  IF r > 0 THEN [doc_type |-> "receita_federal",
                       confidence_reason |-> KEYWORDS_RECEITA[r],
                       debug_text_head |-> NoneOpt]
        ELSE IF f > 0 THEN [doc_type |-> "fgts", confidence_reason |-> KEYWORDS_FGTS[f],
                            debug_text_head |-> NoneOpt]
        ELSE IF s > 0 THEN [doc_type |-> "sefaz", confidence_reason |-> KEYWORDS_SEFAZ[s],
                            debug_text_head |-> NoneOpt]
        ELSE [doc_type |-> "desconhecido",
              confidence_reason |-> NenhumaKeyword,
              debug_text_head |-> Some(debug_head)]

\* the lines the classified texts are drawn from
ClsLinhas == <<
    \* 1: "Ministe'rio da Fazenda - RECEITA FEDERAL"
    <<"M","i","n","i","s","t","e'","r","i","o"," ","d","a"," ","F","a","z","e","n","d","a"," ",
      "-"," ","R","E","C","E","I","T","A"," ","F","E","D","E","R","A","L">>,
    \* 2: "Consulta PGFN via e-CAC"
    <<"C","o","n","s","u","l","t","a"," ","P","G","F","N"," ","v","i","a"," ","e","-","C","A","C">>,
    \* 3: "Certificado de Regularidade do FGTS - CRF"
    <<"C","e","r","t","i","f","i","c","a","d","o"," ","d","e"," ","R","e","g","u","l","a","r","i",
      "d","a","d","e"," ","d","o"," ","F","G","T","S"," ","-"," ","C","R","F">>,
    \* 4: "CAIXA ECONO^MICA FEDERAL"
    <<"C","A","I","X","A"," ","E","C","O","N","O^","M","I","C","A"," ","F","E","D","E","R","A","L">>,
    \* 5: "SEFAZ - ICMS Fronteira"
    <<"S","E","F","A","Z"," ","-"," ","I","C","M","S"," ","F","r","o","n","t","e","i","r","a">>,
    \* 6: "Certida~o de Regularidade Fiscal"
    <<"C","e","r","t","i","d","a~","o"," ","d","e"," ","R","e","g","u","l","a","r","i","d","a",
      "d","e"," ","F","i","s","c","a","l">>,
    \* 7: "Documento gene'rico"
    <<"D","o","c","u","m","e","n","t","o"," ","g","e","n","e'","r","i","c","o">>
  >>

MaxLinhasCls == 2

MaxDebugLines == 2

\* ------------------------------------------------------------------------
\* utils.py and the string helpers of the parsers
\* ------------------------------------------------------------------------
\* s[i - 1:] with every run of characters of W replaced by one " "
colapsa(s, W, i) ==
    LET marcado == [j \in 1..Len(s) |->
                       IF s[j] \notin W THEN s[j]
                       ELSE IF j > 1 /\ s[j - 1] \in W THEN "" ELSE " "]
        fica(c) == c # ""
    IN  SelectSeq(SubSeq(marcado, i, Len(s)), fica)

\* str.lstrip(), str.rstrip() and str.strip()
lstrip(s) ==
    LET ks == {i \in 1..Len(s) : s[i] \notin Whitespace}
    IN  IF Cardinality(ks) = 0 THEN <<>>
        ELSE SubSeq(s, CHOOSE i \in ks : \A j \in ks : i <= j, Len(s))

rstrip(s) ==
    LET ks == {i \in 1..Len(s) : s[i] \notin Whitespace}
    IN  IF Cardinality(ks) = 0 THEN <<>>
        ELSE SubSeq(s, 1, CHOOSE i \in ks : \A j \in ks : i >= j)

strip(s) == lstrip(rstrip(s))

\* _limpa(txt): " ".join(str(txt).strip().split())
limpa(txt) == strip(colapsa(txt, Whitespace, 1))

\* sep.join(strs)
RECURSIVE join(_, _)
join(sep, strs) ==
    IF Len(strs) = 0 THEN <<>>
    ELSE IF Len(strs) = 1 THEN strs[1]
    ELSE strs[1] \o sep \o join(sep, Tail(strs))

\* the text as one str, its lines joined by "\n"
juntar(t) == join(<<"\n">>, t)

\* normalize_text(s) on a text.  No line of a text is empty, so there is no
\* run of three line breaks to shorten; every line holds a character that is
\* not white space, so strip() acts on the first and on the last line only.
normalize_text(t) ==
    tupla([i \in 1..Len(t) |->
              seja(colapsa(t[i], {" "}, 1), LAMBDA l :
                   IF i = 1 /\ i = Len(t) THEN strip(l)
                   ELSE IF i = 1 THEN lstrip(l)
                   ELSE IF i = Len(t) THEN rstrip(l)
                   ELSE l)])

\* the characters of s that are in set W
so_chars(s, W) ==
    LET em_W(c) == c \in W
    IN  SelectSeq(s, em_W)

\* str.replace(de, para) for a character de and a string para
RECURSIVE replace(_, _, _)
replace(s, de, para) ==
    IF Len(s) = 0 THEN <<>>
    ELSE (IF s[1] = de THEN para ELSE <<s[1]>>) \o replace(Tail(s), de, para)

\* str.count(c) for a character c
count(s, c) == Cardinality({i \in 1..Len(s) : s[i] = c})

digit_val(c) == CHOOSE d \in 0..9 : <<"0","1","2","3","4","5","6","7","8","9">>[d + 1] = c

\* int(s) for a string of digits
RECURSIVE int_de(_)
int_de(s) ==
    IF Len(s) = 0 THEN 0
    ELSE 10 * int_de(SubSeq(s, 1, Len(s) - 1)) + digit_val(s[Len(s)])

\* float(s) for a string of digits and "."; the value in centavos, the
\* decimals after the second left out; Erro when float() raises ValueError
Erro == -1

float_de(s) ==
    IF count(s, ".") > 1 \/ so_chars(s, Digits) = <<>> THEN Erro
    ELSE IF count(s, ".") = 0 THEN 100 * int_de(s)
    ELSE LET p == CHOOSE i \in 1..Len(s) : s[i] = "."
             frac == SubSeq(s, p + 1, Len(s)) \o <<"0", "0">>
         IN  100 * int_de(SubSeq(s, 1, p - 1)) + int_de(SubSeq(frac, 1, 2))

\* converter_valor_br_para_float without its try/except: Erro stands for the
\* ValueError of float() leaving the function
converter_sem_except(valor_str) ==
    IF valor_str = <<>> THEN 0
    ELSE seja(so_chars(strip(valor_str), Digits \cup {".", ","}), LAMBDA limpo :
             IF limpo = <<>> THEN 0
             ELSE float_de(IF count(limpo, ",") > 0
                           THEN replace(replace(limpo, ".", <<>>), ",", <<".">>)
                           ELSE IF count(limpo, ".") > 1 THEN replace(limpo, ".", <<>>)
                           ELSE limpo))

\* converter_valor_br_para_float(valor_str), in centavos
converter_valor_br_para_float(valor_str) ==
    IF valor_str = <<>> THEN 0
    ELSE seja(so_chars(strip(valor_str), Digits \cup {".", ","}), LAMBDA limpo :
             IF limpo = <<>> THEN 0
             ELSE seja(float_de(IF count(limpo, ",") > 0
                                THEN replace(replace(limpo, ".", <<>>), ",", <<".">>)
                                ELSE IF count(limpo, ".") > 1 THEN replace(limpo, ".", <<>>)
                                ELSE limpo),
                       LAMBDA valor : IF valor = Erro THEN 0 ELSE valor))

\* ------------------------------------------------------------------------
\* ResultadoParsers (parsers/base.py)
\* ------------------------------------------------------------------------
\* A dict is a function from its keys; a dict-valued field of the accumulator
\* is EmptyDict when it is {} and Dict(d) when it is the non-empty dict d.
EmptyDict == <<>>

Dict(d) == <<d>>

\* the Optional[str] fields, in the order tem_algum_dado and mesclar_no_dados
\* go through them
CamposSimples == <<"requerente", "cnpj", "data_consulta_rf", "data_consulta_sefaz",
    "data_consulta_fgts", "bloco_receita_federal", "bloco_fgts">>

\* the legacy List[List[str]] fields
CamposLista == <<"sefaz_rows", "municipais_rows", "parcelamentos_rows">>

\* the nested Dict[str, Any] fields
CamposEstrutura == <<"sefaz_estadual", "fgts", "receita_federal">>

Campos == Range(CamposSimples) \cup Range(CamposLista) \cup Range(CamposEstrutura)

\* ResultadoParsers(): every scalar None, every list and dict empty
ResultadoParsers ==
    [c \in Campos |->
        IF c \in Range(CamposSimples) THEN NoneOpt
        ELSE IF c \in Range(CamposLista) THEN <<>>
        ELSE EmptyDict]

\* bool(valor) of an Optional[str]: None and "" are false, any other string true
truthy_str(v) == v # NoneOpt /\ Len(v[1]) > 0

\* bool(valor.strip()) of a str
strip_nao_vazio(s) == \E i \in 1..Len(s) : s[i] \notin Whitespace

\* _tem_lista(nome_campo)
tem_lista(self, nome_campo) == Len(self[nome_campo]) > 0

\* tem_algum_dado()
tem_algum_dado(self) ==
    IF \E i \in 1..Len(CamposSimples) : truthy_str(self[CamposSimples[i]]) THEN TRUE
    ELSE IF \E i \in 1..Len(CamposLista) : tem_lista(self, CamposLista[i]) THEN TRUE
    ELSE IF self["sefaz_estadual"] # EmptyDict \/ self["fgts"] # EmptyDict THEN TRUE
    ELSE FALSE

\* dados[chave] = valor
dict_set(d, chave, valor) ==
    [k \in (DOMAIN d) \cup {chave} |-> IF k = chave THEN valor ELSE d[k]]

\* the mutated aplica_simples: the value overwrites whenever it is not None
aplica_simples_sem_strip(self, dic, campo) ==
    LET valor == self[campo]
    IN  IF valor # NoneOpt THEN dict_set(dic, campo, valor) ELSE dic

\* aplica_simples(campo_pdf): the field's value is a str or None
aplica_simples(self, dic, campo) ==
    LET valor == self[campo]
    IN  IF valor # NoneOpt /\ strip_nao_vazio(valor[1])
        THEN dict_set(dic, campo, valor)
        ELSE dic

\* aplica_lista(campo_pdf)
aplica_lista(self, dic, campo) ==
    LET valor == self[campo]
    IN  IF Len(valor) > 0 THEN dict_set(dic, campo, valor) ELSE dic

\* "if self.<campo>: dados[<campo>] = self.<campo>" for a nested dict
aplica_estrutura(self, dic, campo) ==
    IF self[campo] # EmptyDict THEN dict_set(dic, campo, self[campo]) ELSE dic

\* the calls of mesclar_no_dados from the i-th on, in the order of the code:
\* the scalars, the lists, then sefaz_estadual, fgts, receita_federal
OrdemMesclagem == CamposSimples \o CamposLista \o CamposEstrutura

RECURSIVE mesclar_a_partir(_, _, _)
mesclar_a_partir(self, dic, i) ==
    IF i > Len(OrdemMesclagem) THEN dic
    ELSE LET campo == OrdemMesclagem[i]
             d == IF campo \in Range(CamposSimples) THEN aplica_simples(self, dic, campo)
                  ELSE IF campo \in Range(CamposLista) THEN aplica_lista(self, dic, campo)
                  ELSE aplica_estrutura(self, dic, campo)
         IN  mesclar_a_partir(self, d, i + 1)

\* mesclar_no_dados(dados): the dict after the call (also its return value)
mesclar_no_dados(self, dic) == mesclar_a_partir(self, dic, 1)

\* the values a caller gives a scalar field: "", " " and a name
\* NomeEmpresa: "ACME LTDA"
NomeEmpresa ==
    <<"A","C","M","E"," ","L","T","D","A">>

StrAmostras == {Some(<<>>), Some(<<" ">>), Some(NomeEmpresa)}

\* a legacy table of one row of one cell
ListaAmostra == << << <<"x">> >> >>

\* a non-empty nested record
DictAmostra == Dict([situacao |-> "REGULAR"])

\* the number of fields a caller sets in ResultadoParsers(...)
MaxCampos == 2

\* ResultadoParsers( **kwargs) with the fields of S set, the scalars as f gives
Construido(S, f) ==
    [c \in Campos |->
        IF c \notin S THEN ResultadoParsers[c]
        ELSE IF c \in Range(CamposSimples) THEN f[c]
        ELSE IF c \in Range(CamposLista) THEN ListaAmostra
        ELSE DictAmostra]

Acumuladores(n) ==
    UNION {{Construido(S, f) : f \in [S \cap Range(CamposSimples) -> StrAmostras]} :
              S \in {T \in SUBSET Campos : Cardinality(T) <= n}}

\* the dicts handed to mesclar_no_dados: empty, holding the form's value under
\* every key of the accumulator and one more, or under two keys only
\* ValorFormulario: "form"
ValorFormulario ==
    <<"f","o","r","m">>

DadosFormulario ==
    [k \in Campos \cup {"regime_tributario"} |->
        IF k \in Range(CamposLista) THEN << <<ValorFormulario>> >>
        ELSE IF k \in Range(CamposEstrutura) THEN Dict([situacao |-> "FORMULARIO"])
        ELSE Some(ValorFormulario)]

DadosIniciais ==
    {[k \in {} |-> NoneOpt], DadosFormulario,
     [k \in {"requerente", "regime_tributario"} |-> Some(ValorFormulario)]}

\* ------------------------------------------------------------------------
\* parsers/sefaz.py
\* ------------------------------------------------------------------------
\* A table is a sequence of rows, a row a sequence of cells, a cell a string;
\* the empty string stands for an empty cell and for a cell that is None.
nao_vazia(cell) == cell # <<>>

\* " ".join([_limpa(cell) for cell in linha if cell])
linha_completa_de(linha) ==
    LET cheias == SelectSeq(linha, nao_vazia)
    IN  join(<<" ">>, [i \in 1..Len(cheias) |-> limpa(cheias[i])])

TermosCabecalhoDebito ==
    {<<"D","E'","B","I","T","O">>, <<"D","E","B","I","T","O">>, <<"V","A","L","O","R">>, <<"C",
            "O","M","P","E","T","E^","N","C","I","A">>, <<"C","O","M","P","E","T","E","N","C","I",
            "A">>}

\* the header row of the table suggests a debt listing
cabecalho_de_debitos(tabela) ==
    LET primeira_linha == str_upper(linha_completa_de(tabela[1]))
    IN  \E termo \in TermosCabecalhoDebito : str_in(termo, primeira_linha)

\* _identificar_tipo_documento(texto, tabelas)
identificar_tipo_documento(texto, tabelas) ==
    LET texto_upper == text_upper(texto)
        tem_tabela_debitos ==
            \E i \in 1..Len(tabelas) : tabelas[i] # <<>> /\ cabecalho_de_debitos(tabelas[i])
    IN  IF /\ \/ text_in(<<"C","E","R","T","I","D","A~","O"," ","D","E"," ","R","E","G","U","L",
                 "A","R","I","D","A","D","E"," ","F","I","S","C","A","L">>, texto_upper)
              \/ text_in(<<"C","E","R","T","I","D","A","O"," ","D","E"," ","R","E","G","U","L",
                      "A","R","I","D","A","D","E"," ","F","I","S","C","A","L">>, texto_upper)
           /\ ~tem_tabela_debitos
        THEN "certidao"
        ELSE IF \E termo \in {<<"D","E'","B","I","T","O","S">>, <<"D","E","B","I","T","O","S">>,
                <<"V","A","L","O","R">>, <<"C","O","M","P","E","T","E^","N","C","I","A">>,
                              <<"C","O","M","P","E","T","E","N","C","I","A">>, <<"L","I","S","T",
                                      "A","G","E","M">>} : text_in(termo, texto_upper)
        THEN "extrato"
        ELSE IF tabelas # <<>> THEN "extrato" ELSE "certidao"

\* ([\d\.]+,\d{2}): a monetary amount
RxValor == <<Ch(DigitDot, 1, -1)>> \o Lit(<<",">>) \o <<Ch(Digits, 2, 2)>>

\* the patterns of _extrair_valor_de_celula in order, with the items of the
\* group of the amount: de is its first item, ate the item after its last
PadroesValor ==
    <<[rx |-> <<RxValor>>, de |-> 1, ate |-> 4],
      [rx |-> << <<Ch(DigitDot, 1, -1)>> \o Lit(<<",">>) \o <<Ch(Digits, 1, 2)>> >>,
       de |-> 1, ate |-> 4],
      [rx |-> << Lit(<<"R", "$">>) \o <<Ch(Whitespace, 0, -1)>> \o RxValor >>,
       de |-> 4, ate |-> 7],
      [rx |-> << <<Ch(Digits, 1, -1)>> \o Lit(<<",">>) \o <<Ch(Digits, 2, 2)>> >>,
       de |-> 1, ate |-> 4]>>

\* for padrao in padroes: the amount of the first of the patterns i.. that
\* is found in the cell, 0 when none is
RECURSIVE valor_do_padrao(_, _)
valor_do_padrao(celula_limpa, i) ==
    IF i > Len(PadroesValor) THEN 0
    ELSE seja(re_search(PadroesValor[i].rx, celula_limpa), LAMBDA m :
             IF m.alt # 0
             THEN converter_valor_br_para_float(
                      grupo(celula_limpa, m, PadroesValor[i].de, PadroesValor[i].ate))
             ELSE valor_do_padrao(celula_limpa, i + 1))

\* _extrair_valor_de_celula(celula), in centavos: the patterns in order, each
\* searched in the whole cell
extrair_valor_de_celula(celula) ==
    IF celula = <<>> THEN 0 ELSE valor_do_padrao(limpa(celula), 1)

\* the first of the indices ks, as a loop that breaks at it finds it; 0 for none
primeiro_indice(ks) ==
    IF Cardinality(ks) = 0 THEN 0 ELSE CHOOSE k \in ks : \A j \in ks : k <= j

\* linhas[inicio_bloco:fim_bloco] (0-based), the block ending before the first
\* later line that holds one of the markers
linhas_do_bloco(linhas, inicio, marcadores_fim) ==
    LET tem_marcador(l) == \E marcador \in marcadores_fim : str_in(marcador, str_upper(l))
        fim == primeiro_indice({k \in (inicio + 1)..Len(linhas) : tem_marcador(linhas[k])})
    IN  SubSeq(linhas, inicio, IF fim = 0 THEN Len(linhas) ELSE fim - 1)

UpperAcentuadas ==
    {"A","B","C","D","E","F","G","H","I","J","K","L","M","N","O","P","Q","R","S","T","U",
     "V","W","X","Y","Z","A'","E'","I'","O'","U'","C,"}

\* processo, situacao, saldo of a line of the block DEBITOS FISCAIS
RxLinhaDebito ==
    <<Ch(Digits, 4, 4), Ch({".", "-"}, 0, 1), Ch(Digits, 8, -1), Ch({"-"}, 0, 1),
      Ch(Digits, 2, -1), Ch(Whitespace, 1, -1),
      Lazy(Ch(UpperAcentuadas \cup Whitespace, 2, 20)), Ch(Whitespace, 1, -1)>> \o RxValor

\* the item of a line with processo, situacao and saldo, <<>> when the line
\* is left out
item_debito_fiscal(processo, situacao, saldo) ==
    IF processo # <<>> \/ saldo > 0
    THEN <<[processo |-> processo, situacao |-> situacao, saldo |-> saldo]>>
    ELSE <<>>

\* the item the match m of RxLinhaDebito in a line yields
debito_fiscal_do_match(linha_limpa, m) ==
    IF m.alt = 0 THEN <<>>
    ELSE item_debito_fiscal(
             strip(grupo(linha_limpa, m, 1, 6)), strip(grupo(linha_limpa, m, 7, 8)),
             converter_valor_br_para_float(strip(grupo(linha_limpa, m, 9, 12))))

\* the items lines i.. of the block DEBITOS FISCAIS yield
RECURSIVE debitos_das_linhas(_, _)
debitos_das_linhas(linhas_bloco, i) ==
    IF i > Len(linhas_bloco) THEN <<>>
    ELSE seja(limpa(linhas_bloco[i]), LAMBDA linha_limpa :
             IF \E termo \in {<<"P","R","O","C","E","S","S","O">>, <<"S","I","T","U","A","C,",
                     "A~","O">>, <<"S","I","T","U","A","C","A","O">>, <<"S","A","L","D","O">>,
                               <<"V","A","L","O","R">>} : str_in(termo, str_upper(linha_limpa))
             THEN <<>>
             ELSE debito_fiscal_do_match(linha_limpa,
                                         re_search(<<RxLinhaDebito>>, linha_limpa)))
         \o debitos_das_linhas(linhas_bloco, i + 1)

\* the line holds the header of the block DEBITOS FISCAIS
cabecalho_debitos_fiscais(l) ==
    re_search(<<LitI(<<"D","E'","B","I","T","O","S">>) \o <<Ch(Whitespace, 1, -1)>> \o LitI(<<"F",
            "I","S","C","A","I","S">>),
                LitI(<<"D","E","B","I","T","O","S">>) \o <<Ch(Whitespace, 1, -1)>> \o LitI(<<"F",
                        "I","S","C","A","I","S">>)>>,
              l).alt # 0

\* _extrair_debitos_fiscais(texto)
extrair_debitos_fiscais(texto) ==
    seja(normalize_text(texto), LAMBDA linhas :
        seja(primeiro_indice({k \in 1..Len(linhas) : cabecalho_debitos_fiscais(linhas[k])}),
             LAMBDA inicio_bloco :
                 IF inicio_bloco = 0 THEN <<>>
                 ELSE debitos_das_linhas(
                          linhas_do_bloco(linhas, inicio_bloco,
                              {<<"F","R","O","N","T","E","I","R","A","S">>, <<"F","R","O","N","T",
                                      "E","I","R","A">>, <<"I","P","V","A">>, <<"C","O","N","C",
                                      "L","U","S","A~","O">>,
                               <<"O","B","S","E","R","V","A","C,","A~","O">>}), 1)))

\* dae, vencimento, valor of a line of the block FRONTEIRAS
RxLinhaFronteira ==
    <<Ch(Digits, 6, -1), Ch(Whitespace, 1, -1), Ch(Digits, 2, 2), Ch({"/"}, 1, 1),
      Ch(Digits, 2, 2), Ch({"/"}, 1, 1), Ch(Digits, 4, 4), Ch(Whitespace, 1, -1)>> \o RxValor

\* the item of a line with dae, vencimento and valor, <<>> when the line is
\* left out
item_fronteira(dae, vencimento, valor) ==
    IF dae # <<>> \/ valor > 0
    THEN <<[dae |-> dae, vencimento |-> vencimento, valor_original |-> valor]>>
    ELSE <<>>

\* the item the match m of RxLinhaFronteira in a line yields
fronteira_do_match(linha_limpa, m) ==
    IF m.alt = 0 THEN <<>>
    ELSE item_fronteira(
             strip(grupo(linha_limpa, m, 1, 2)), strip(grupo(linha_limpa, m, 3, 8)),
             converter_valor_br_para_float(strip(grupo(linha_limpa, m, 9, 12))))

\* the items lines i.. of the block FRONTEIRAS yield
RECURSIVE fronteiras_das_linhas(_, _)
fronteiras_das_linhas(linhas_bloco, i) ==
    IF i > Len(linhas_bloco) THEN <<>>
    ELSE seja(limpa(linhas_bloco[i]), LAMBDA linha_limpa :
             IF \E termo \in {<<"N","U","M">>, <<"D","A","E">>, <<"D","T">>, <<"V","E","N","C">>,
                     <<"V","A","L","O","R">>, <<"O","R","I","G","I","N","A","L">>} :
                    str_in(termo, str_upper(linha_limpa))
             THEN <<>>
             ELSE fronteira_do_match(linha_limpa,
                                     re_search(<<RxLinhaFronteira>>, linha_limpa)))
         \o fronteiras_das_linhas(linhas_bloco, i + 1)

\* the line holds the header of the block FRONTEIRAS
cabecalho_fronteiras(l) ==
    re_search(<<LitI(<<"F","R","O","N","T","E","I","R","A","S">>), LitI(<<"F","R","O","N","T","E",
            "I","R","A">>)>>, l).alt # 0

\* _extrair_fronteiras(texto)
extrair_fronteiras(texto) ==
    seja(normalize_text(texto), LAMBDA linhas :
        seja(primeiro_indice({k \in 1..Len(linhas) : cabecalho_fronteiras(linhas[k])}),
             LAMBDA inicio_bloco :
                 IF inicio_bloco = 0 THEN <<>>
                 ELSE fronteiras_das_linhas(
                          linhas_do_bloco(linhas, inicio_bloco,
                              {<<"D","E'","B","I","T","O","S"," ","F","I","S","C","A","I","S">>,
                                      <<"D","E","B","I","T","O","S"," ","F","I","S","C","A","I",
                                      "S">>, <<"I","P","V","A">>,
                               <<"C","O","N","C","L","U","S","A~","O">>}), 1)))

\* MotivoIrregular: "Documento conte'm irregularidades ou de'bitos pendentes"
MotivoIrregular ==
    <<"D","o","c","u","m","e","n","t","o"," ","c","o","n","t","e'","m"," ","i","r","r","e","g",
      "u","l","a","r","i","d","a","d","e","s"," ","o","u"," ","d","e'","b","i","t","o","s"," ",
      "p","e","n","d","e","n","t","e","s">>

\* MotivoCertidao: "Certida~o de regularidade fiscal emitida"
MotivoCertidao ==
    <<"C","e","r","t","i","d","a~","o"," ","d","e"," ","r","e","g","u","l","a","r","i","d","a",
      "d","e"," ","f","i","s","c","a","l"," ","e","m","i","t","i","d","a">>

\* MotivoRegular: "Documento indica situac,a~o regular"
MotivoRegular ==
    <<"D","o","c","u","m","e","n","t","o"," ","i","n","d","i","c","a"," ","s","i","t","u","a",
      "c,","a~","o"," ","r","e","g","u","l","a","r">>

\* MotivoIndeterminado: "Texto na~o corresponde ao padra~o esperado"
MotivoIndeterminado ==
    <<"T","e","x","t","o"," ","n","a~","o"," ","c","o","r","r","e","s","p","o","n","d","e"," ",
      "a","o"," ","p","a","d","r","a~","o"," ","e","s","p","e","r","a","d","o">>

\* ObservacaoCertidao: "Documento e' certida~o; na~o conte'm detalhamento de IPVA/fronteira/de'bitos fiscais."
ObservacaoCertidao ==
    <<"D","o","c","u","m","e","n","t","o"," ","e'"," ","c","e","r","t","i","d","a~","o",";"," ",
      "n","a~","o"," ","c","o","n","t","e'","m"," ","d","e","t","a","l","h","a","m","e","n","t",
      "o"," ","d","e"," ","I","P","V","A","/","f","r","o","n","t","e","i","r","a","/","d","e'",
      "b","i","t","o","s"," ","f","i","s","c","a","i","s",".">>

\* ObservacaoSemDebitos: "Na~o ha' de'bitos identificados no peri'odo analisado."
ObservacaoSemDebitos ==
    <<"N","a~","o"," ","h","a'"," ","d","e'","b","i","t","o","s"," ","i","d","e","n","t","i","f",
      "i","c","a","d","o","s"," ","n","o"," ","p","e","r","i'","o","d","o"," ","a","n","a","l",
      "i","s","a","d","o",".">>

termos_irregular == <<
    \* 1: "irregularidades"
    <<"i","r","r","e","g","u","l","a","r","i","d","a","d","e","s">>,
    \* 2: "irregularidade"
    <<"i","r","r","e","g","u","l","a","r","i","d","a","d","e">>,
    \* 3: "irregular"
    <<"i","r","r","e","g","u","l","a","r">>,
    \* 4: "de'bitos pendentes"
    <<"d","e'","b","i","t","o","s"," ","p","e","n","d","e","n","t","e","s">>,
    \* 5: "debitos pendentes"
    <<"d","e","b","i","t","o","s"," ","p","e","n","d","e","n","t","e","s">>,
    \* 6: "de'bito pendente"
    <<"d","e'","b","i","t","o"," ","p","e","n","d","e","n","t","e">>,
    \* 7: "debito pendente"
    <<"d","e","b","i","t","o"," ","p","e","n","d","e","n","t","e">>,
    \* 8: "consta de'bito"
    <<"c","o","n","s","t","a"," ","d","e'","b","i","t","o">>,
    \* 9: "consta debito"
    <<"c","o","n","s","t","a"," ","d","e","b","i","t","o">>,
    \* 10: "ha' de'bito"
    <<"h","a'"," ","d","e'","b","i","t","o">>,
    \* 11: "ha debito"
    <<"h","a"," ","d","e","b","i","t","o">>,
    \* 12: "em atraso"
    <<"e","m"," ","a","t","r","a","s","o">>,
    \* 13: "atraso"
    <<"a","t","r","a","s","o">>,
    \* 14: "pende^ncias"
    <<"p","e","n","d","e^","n","c","i","a","s">>,
    \* 15: "pendencias"
    <<"p","e","n","d","e","n","c","i","a","s">>
  >>

termos_regular == <<
    \* 1: "situac,a~o regular"
    <<"s","i","t","u","a","c,","a~","o"," ","r","e","g","u","l","a","r">>,
    \* 2: "situacao regular"
    <<"s","i","t","u","a","c","a","o"," ","r","e","g","u","l","a","r">>,
    \* 3: "regularidade"
    <<"r","e","g","u","l","a","r","i","d","a","d","e">>,
    \* 4: "nada consta"
    <<"n","a","d","a"," ","c","o","n","s","t","a">>,
    \* 5: "sem pende^ncias"
    <<"s","e","m"," ","p","e","n","d","e^","n","c","i","a","s">>,
    \* 6: "sem pendencias"
    <<"s","e","m"," ","p","e","n","d","e","n","c","i","a","s">>,
    \* 7: "certida~o negativa"
    <<"c","e","r","t","i","d","a~","o"," ","n","e","g","a","t","i","v","a">>,
    \* 8: "certidao negativa"
    <<"c","e","r","t","i","d","a","o"," ","n","e","g","a","t","i","v","a">>
  >>

\* IPVA.*?(?P<ano>\d{4}).*?R\$?\s*(?P<valor>[\d\.]+,\d{2}) under re.IGNORECASE
RxIpva ==
    LitI(<<"I","P","V","A">>) \o <<AnyLazy, Ch(Digits, 4, 4), AnyLazy>> \o LitI(<<"R">>)
        \o <<Ch({"$"}, 0, 1), Ch(Whitespace, 0, -1)>> \o RxValor

\* the item of a match of RxIpva with ano and valor, <<>> when the amount is 0
item_ipva(ano, valor) ==
    IF valor # 0 THEN <<[ano |-> int_de(ano), valor |-> valor, situacao |-> "EM ABERTO"]>>
    ELSE <<>>

\* the items the matches i.. of RxIpva yield
RECURSIVE ipva_dos_matches(_, _, _)
ipva_dos_matches(s, ms, i) ==
    IF i > Len(ms) THEN <<>>
    ELSE item_ipva(grupo(s, ms[i], 6, 7),
                   converter_valor_br_para_float(grupo(s, ms[i], 11, 14)))
         \o ipva_dos_matches(s, ms, i + 1)

\* the item of a row of a debt table with the amounts of its cells, <<>>
\* when it yields none
item_da_linha_de_tabela(linha, linha_completa, valores) ==
    seja(primeiro_indice({i \in 1..Len(linha) : linha[i] # <<>> /\ valores[i] > 0}), LAMBDA k :
        IF \/ k # 0
           \/ re_search(<< <<Ch(Digits, 2, 2), Ch({"/"}, 1, 1), Ch(Digits, 4, 4)>> >>,
                        linha_completa).alt # 0
           \/ linha_completa # <<>>
        THEN <<[processo |-> SubSeq(linha_completa, 1, Min(100, Len(linha_completa))),
                situacao |-> <<>>,
                saldo |-> IF k = 0 THEN 0 ELSE valores[k]]>>
        ELSE <<>>)

\* the item a row of a debt table yields, <<>> when it yields none
debito_da_linha_de_tabela(linha) ==
    item_da_linha_de_tabela(linha, linha_completa_de(linha),
                            tupla([i \in 1..Len(linha) |-> extrair_valor_de_celula(linha[i])]))

\* the items the rows i.. of a debt table yield, the header row skipped
RECURSIVE debitos_da_tabela(_, _)
debitos_da_tabela(tabela, i) ==
    IF i > Len(tabela) THEN <<>>
    ELSE debito_da_linha_de_tabela(tabela[i]) \o debitos_da_tabela(tabela, i + 1)

\* the items the tables i.. yield
RECURSIVE debitos_das_tabelas(_, _)
debitos_das_tabelas(tabelas, i) ==
    IF i > Len(tabelas) THEN <<>>
    ELSE (IF tabelas[i] # <<>> /\ cabecalho_de_debitos(tabelas[i])
          THEN debitos_da_tabela(tabelas[i], 2)
          ELSE <<>>) \o debitos_das_tabelas(tabelas, i + 1)

\* the mutated detection: the regularity terms are tried first
detectar_situacao_regular_primeiro(texto_lower) ==
    IF \E i \in 1..Len(termos_regular) : text_in(termos_regular[i], texto_lower)
    THEN "REGULAR"
    ELSE IF \E i \in 1..Len(termos_irregular) : text_in(termos_irregular[i], texto_lower)
    THEN "IRREGULAR"
    ELSE "INDETERMINADO"

\* the detection of the situation: IRREGULARIDADES > REGULARIDADE > INDETERMINADO
detectar_situacao(texto_lower) ==
    IF \E i \in 1..Len(termos_irregular) : text_in(termos_irregular[i], texto_lower)
    THEN "IRREGULAR"
    ELSE IF \E i \in 1..Len(termos_regular) : text_in(termos_regular[i], texto_lower)
    THEN "REGULAR"
    ELSE "INDETERMINADO"

\* the reasons given for the situation
motivos_da_situacao(situacao, tipo_doc) ==
    IF situacao = "IRREGULAR" THEN <<MotivoIrregular>>
    ELSE IF situacao = "REGULAR" /\ tipo_doc = "certidao" THEN <<MotivoCertidao>>
    ELSE IF situacao = "REGULAR" THEN <<MotivoRegular>>
    ELSE <<MotivoIndeterminado>>

\* the IPVA items of the text
ipva_do_texto(texto) ==
    IF \E termo \in {<<"I","P","V","A">>, <<"A","N","O">>, <<"E","X","E","R","C","I'","C","I",
            "O">>, <<"E","X","E","R","C","I","C","I","O">>} :
           text_in(termo, text_upper(texto))
    THEN \* re.sub(r'\s+', ' ', texto)
         seja(colapsa(juntar(texto), Whitespace, 1), LAMBDA texto_normalizado :
             ipva_dos_matches(texto_normalizado,
                              re_finditer(<<RxIpva>>, texto_normalizado), 1))
    ELSE <<>>

\* the dict returned with the items extracted from an extrato
sefaz_com_itens(vazio, ipva, fronteiras, debitos_itens) ==
    [vazio EXCEPT
        !.detalhes = [ipva |-> ipva,
                      fronteira |-> [tem_em_aberto |-> fronteiras # <<>>,
                                     itens |-> fronteiras],
                      debitos_fiscais |-> [tem |-> debitos_itens # <<>>,
                                           itens |-> debitos_itens]],
        !.observacao =
            IF ipva = <<>> /\ fronteiras = <<>> /\ debitos_itens = <<>>
            THEN Some(ObservacaoSemDebitos)
            ELSE NoneOpt]

\* the extraction of the items, with the items of the two blocks of the text.
\* re.finditer(texto_normalizado, re.IGNORECASE) raises: the text is compiled
\* as the pattern and the flag is not a string to search
sefaz_dos_blocos(texto, tabelas, vazio, debitos_fiscais, fronteiras) ==
    IF /\ vazio.tipo_documento = "extrato"
       /\ fronteiras = <<>>
       /\ \/ text_in(<<"F","R","O","N","T","E","I","R","A">>, text_upper(texto))
          \/ text_in(<<"I","C","M","S"," ","A","N","T","E","C","I","P","A","D","O">>,
                  text_upper(texto))
    THEN [vazio EXCEPT !.raised = TRUE]
    ELSE sefaz_com_itens(vazio, ipva_do_texto(texto), fronteiras,
                         IF debitos_fiscais # <<>> THEN debitos_fiscais
                         ELSE debitos_das_tabelas(tabelas, 1))

\* processar_sefaz with the kind of document and the situation detected
sefaz_da_situacao(texto, tabelas, tipo_doc, situacao) ==
    seja([raised |-> FALSE, tipo_documento |-> tipo_doc, situacao |-> situacao,
          motivos |-> motivos_da_situacao(situacao, tipo_doc),
          detalhes |-> [ipva |-> <<>>,
                        fronteira |-> [tem_em_aberto |-> FALSE, itens |-> <<>>],
                        debitos_fiscais |-> [tem |-> FALSE, itens |-> <<>>]],
          observacao |-> NoneOpt],
         LAMBDA vazio :
             IF situacao = "REGULAR" /\ tipo_doc = "certidao"
             THEN [vazio EXCEPT !.observacao = Some(ObservacaoCertidao)]
             ELSE sefaz_dos_blocos(
                      texto, tabelas, vazio,
                      IF situacao = "IRREGULAR" THEN extrair_debitos_fiscais(texto) ELSE <<>>,
                      IF situacao = "IRREGULAR" THEN extrair_fronteiras(texto) ELSE <<>>))

\* processar_sefaz(texto, tabelas): the dict returned, raised FALSE, or
\* raised TRUE when the call ends in an exception
processar_sefaz(texto, tabelas) ==
    sefaz_da_situacao(texto, tabelas, identificar_tipo_documento(texto, tabelas),
                      detectar_situacao(text_lower(normalize_text(texto))))

\* the lines the SEFAZ texts are drawn from
SefazLinhas == <<
    \* 1: "CERTIDA~O DE REGULARIDADE FISCAL"
    <<"C","E","R","T","I","D","A~","O"," ","D","E"," ","R","E","G","U","L","A","R","I","D","A",
      "D","E"," ","F","I","S","C","A","L">>,
    \* 2: "Situac,a~o  regular"
    <<"S","i","t","u","a","c,","a~","o"," "," ","r","e","g","u","l","a","r">>,
    \* 3: "sem pende^ncias"
    <<"s","e","m"," ","p","e","n","d","e^","n","c","i","a","s">>,
    \* 4: "Documento gene'rico"
    <<"D","o","c","u","m","e","n","t","o"," ","g","e","n","e'","r","i","c","o">>,
    \* 5: "IPVA 2023 R$ 1.234,56"
    <<"I","P","V","A"," ","2","0","2","3"," ","R","$"," ","1",".","2","3","4",",","5","6">>,
    \* 6: "DE'BITOS FISCAIS em atraso"
    <<"D","E'","B","I","T","O","S"," ","F","I","S","C","A","I","S"," ","e","m"," ","a","t","r",
      "a","s","o">>,
    \* 7: "2024.000010816644-80 ATIVO 36.491,20"
    <<"2","0","2","4",".","0","0","0","0","1","0","8","1","6","6","4","4","-","8","0"," ","A","T",
      "I","V","O"," ","3","6",".","4","9","1",",","2","0">>,
    \* 8: "FRONTEIRA em atraso"
    <<"F","R","O","N","T","E","I","R","A"," ","e","m"," ","a","t","r","a","s","o">>,
    \* 9: "9693489 28/01/2025 899,93"
    <<"9","6","9","3","4","8","9"," ","2","8","/","0","1","/","2","0","2","5"," ","8","9","9",",",
      "9","3">>
  >>

\* a table whose header suggests a debt listing, with an empty cell, and one
\* whose header does not
TabelaDebitos == << <<<<"P","r","o","c","e","s","s","o">>, <<"V","a","l","o","r">>>>, <<<<>>,
        <<"1",".","0","0","0",",","0","0">>>> >>

TabelaCadastro == << <<<<"N","o","m","e">>, <<"C","i","d","a","d","e">>>>, <<<<"A","C","M","E">>,
        <<"R","e","c","i","f","e">>>> >>

\* the tables of a document: none, one of the two, or an empty table and the
\* debt listing
TabelasAmostras == {<<>>, <<TabelaDebitos>>, <<TabelaCadastro>>, <<<<>>, TabelaDebitos>>}

MaxLinhasSefaz == 2

\* padrao_fronteira, the pattern the fallback builds and does not hand to
\* re.finditer:
\* (FRONTEIRA|ICMS\s+ANTECIPADO).*?(?P<competencia>\d{2}/\d{4}).*?R\$?\s*(?P<valor>[\d\.]+,\d{2})
RxDepoisDaFronteira ==
    <<AnyLazy, Ch(Digits, 2, 2)>> \o Lit(<<"/">>) \o <<Ch(Digits, 4, 4), AnyLazy>>
        \o LitI(<<"R">>) \o <<Ch({"$"}, 0, 1), Ch(Whitespace, 0, -1)>> \o RxValor

padrao_fronteira ==
    <<LitI(<<"F","R","O","N","T","E","I","R","A">>) \o RxDepoisDaFronteira,
      LitIS(<<"I","C","M","S"," ","A","N","T","E","C","I","P","A","D",
              "O">>) \o RxDepoisDaFronteira>>

\* the lines the texts of statements with border-tax entries are drawn from
LinhasFronteira == <<
    \* 1: "ICMS ANTECIPADO 03/2024 R$ 500,00"
    <<"I","C","M","S"," ","A","N","T","E","C","I","P","A","D","O"," ","0","3","/","2","0","2","4",
      " ","R","$"," ","5","0","0",",","0","0">>,
    \* 2: "FRONTEIRA 10/2024 1.250,00"
    <<"F","R","O","N","T","E","I","R","A"," ","1","0","/","2","0","2","4"," ","1",".","2","5","0",
      ",","0","0">>,
    \* 3: "FRONTEIRA em atraso"
    <<"F","R","O","N","T","E","I","R","A"," ","e","m"," ","a","t","r","a","s","o">>,
    \* 4: "9693489 28/01/2025 899,93"
    <<"9","6","9","3","4","8","9"," ","2","8","/","0","1","/","2","0","2","5"," ","8","9","9",",",
      "9","3">>,
    \* 5: "Extrato de de'bitos"
    <<"E","x","t","r","a","t","o"," ","d","e"," ","d","e'","b","i","t","o","s">>
  >>

MaxLinhasFronteira == 3

\* ------------------------------------------------------------------------
\* parsers/receita_federal.py
\* ------------------------------------------------------------------------
CODIGOS_CP_SEGURO == {<<"1","0","8","2","-","0","1">>, <<"1","0","9","9","-","0","1">>}

CODIGOS_CP_PATRONAL == {<<"1","1","3","8","-","0","1">>, <<"1","6","4","6","-","0","1">>}

CODIGOS_CP_TERCEIROS == {<<"1","1","7","0","-","0","1">>, <<"1","1","7","6","-","0","1">>, <<"1",
        "1","9","1","-","0","1">>, <<"1","1","9","6","-","0","1">>, <<"1","2","0","0","-","0",
        "1">>}

\* CODIGOS_TRIBUTOS["IRRF"], ["PIS"] and ["COFINS"]; the list of IRLS is empty
CODIGOS_IRRF == {<<"0","5","6","1","-","0","7">>}

CODIGOS_PIS == {<<"8","1","0","9","-","0","2">>, <<"0","8","1","0">>}

CODIGOS_COFINS == {<<"2","1","7","2","-","0","1">>, <<"4","4","9","3">>}

\* \d{4}-\d{2}, \d{4} and \d{2}/\d{4}
RxCodigoLongo == <<Ch(Digits, 4, 4)>> \o Lit(<<"-">>) \o <<Ch(Digits, 2, 2)>>

RxCodigoCurto == <<Ch(Digits, 4, 4)>>

RxMesAno == <<Ch(Digits, 2, 2)>> \o Lit(<<"/">>) \o <<Ch(Digits, 4, 4)>>

\* _normalizar_competencia giving, for "MM/AAAA", the month before the year
normalizar_competencia_mes_primeiro(comp) ==
    seja(strip(comp), LAMBDA c :
        IF re_match(<<RxMesAno>>, c).alt # 0
        THEN Some(SubSeq(c, 1, 2) \o <<"-">> \o SubSeq(c, 4, 7))
        ELSE IF re_match(<<RxCodigoLongo>>, c).alt # 0 THEN Some(c)
        ELSE IF re_match(<<RxCodigoCurto>>, c).alt # 0
        THEN Some(SubSeq(c, 1, 4) \o <<"-", "0", "1">>)
        ELSE NoneOpt)

\* _normalizar_competencia(comp) for a comp that is not empty: "AAAA-MM" as
\* Some, or NoneOpt
normalizar_competencia_rf(comp) ==
    seja(strip(comp), LAMBDA c :
        IF re_match(<<RxMesAno>>, c).alt # 0
        THEN Some(SubSeq(c, 4, 7) \o <<"-">> \o SubSeq(c, 1, 2))
        ELSE IF re_match(<<RxCodigoLongo>>, c).alt # 0 THEN Some(c)
        ELSE IF re_match(<<RxCodigoCurto>>, c).alt # 0
        THEN Some(SubSeq(c, 1, 4) \o <<"-", "0", "1">>)
        ELSE NoneOpt)

\* the last index of set ks, 0 for none: the value a loop that overwrites leaves
ultimo_indice(ks) ==
    IF Cardinality(ks) = 0 THEN 0 ELSE CHOOSE k \in ks : \A j \in ks : k >= j

\* the column a header cell names, by the if/elif chain of
\* _identificar_colunas_tabela; None for a cell that names none
classe_da_coluna(cell_upper) ==
    IF \E termo \in {<<"S","D","O",".","D","E","V",".","C","O","N","S">>, <<"S","D","O"," ","D",
            "E","V"," ","C","O","N","S">>, <<"S","A","L","D","O"," ","D","E","V","E","D","O","R",
            " ","C","O","N","S","O","L","I","D","A","D","O">>,
                      <<"S","A","L","D","O"," ","C","O","N","S","O","L","I","D","A","D","O">>,
                              <<"C","O","N","S","O","L","I","D","A","D","O">>, <<"S","D","O",".",
                              "D","E","V",".","C","O","N","S",".">>} :
           str_in(termo, cell_upper)
    THEN "saldo_consolidado"
    ELSE IF \E termo \in {<<"S","D","O",".","D","E","V","E","D","O","R">>, <<"S","D","O"," ","D",
            "E","V","E","D","O","R">>, <<"S","A","L","D","O"," ","D","E","V","E","D","O","R">>} :
                str_in(termo, cell_upper)
    THEN "saldo_devedor"
    ELSE IF \E termo \in {<<"V","L",".","O","R","I","G","I","N","A","L">>, <<"V","A","L","O","R",
            " ","O","R","I","G","I","N","A","L">>, <<"O","R","I","G","I","N","A","L">>} :
                str_in(termo, cell_upper)
    THEN "valor_original"
    ELSE None

\* the position of the last cell of class classe, 0 for none
coluna_da_classe(classes, classe) ==
    ultimo_indice({i \in 1..Len(classes) : classes[i] = classe})

\* _identificar_colunas_tabela(cabecalho): the position of each column,
\* counted from 1, 0 where the code holds -1
identificar_colunas_tabela(cabecalho) ==
    seja(tupla([i \in 1..Len(cabecalho) |->
                   IF cabecalho[i] = <<>> THEN None
                   ELSE classe_da_coluna(str_upper(limpa(cabecalho[i])))]),
         LAMBDA classes :
             [saldo_consolidado |-> coluna_da_classe(classes, "saldo_consolidado"),
              saldo_devedor |-> coluna_da_classe(classes, "saldo_devedor"),
              valor_original |-> coluna_da_classe(classes, "valor_original")])

\* the largest of the amounts i.. of the cells of a row, 0 when there is none
RECURSIVE valor_max_da_linha(_, _)
valor_max_da_linha(valores, i) ==
    IF i > Len(valores) THEN 0
    ELSE seja(valor_max_da_linha(valores, i + 1), LAMBDA resto :
             IF valores[i] > resto THEN valores[i] ELSE resto)

\* the amount of the cell of column idx, 0 when the row has no such cell
na_coluna(valores, idx) == IF idx >= 1 /\ idx <= Len(valores) THEN valores[idx] ELSE 0

\* the amount chosen among those of the cells of a row: saldo consolidado,
\* then saldo devedor, then the largest
valor_escolhido(valores, indices_colunas) ==
    IF na_coluna(valores, indices_colunas.saldo_consolidado) > 0
    THEN Some(na_coluna(valores, indices_colunas.saldo_consolidado))
    ELSE IF na_coluna(valores, indices_colunas.saldo_devedor) > 0
    THEN Some(na_coluna(valores, indices_colunas.saldo_devedor))
    ELSE IF valor_max_da_linha(valores, 1) > 0 THEN Some(valor_max_da_linha(valores, 1))
    ELSE NoneOpt

\* _extrair_valor_da_linha(linha, indices_colunas): centavos as Some, or
\* NoneOpt.  An empty cell holds no amount.
extrair_valor_da_linha(linha, indices_colunas) ==
    valor_escolhido(tupla([i \in 1..Len(linha) |->
                              IF linha[i] # <<>> THEN extrair_valor_de_celula(linha[i])
                              ELSE 0]),
                    indices_colunas)

\* _classificar_categoria(linha_completa_upper, codigo)
classificar_categoria(linha_completa_upper, codigo) ==
    IF \/ \E termo \in {<<"C","P","-","S","E","G","U","R">>, <<"C","P"," ","S","E","G","U","R">>,
            <<"C","P"," ","S","E","G","U","R","A","D","O","S">>, <<"C","O","N","T","R","."," ",
            "S","E","G","U","R","A","D","O","S">>,
                        <<"S","E","G","U","R","A","D","O",
                                "S">>} : str_in(termo, linha_completa_upper)
       \/ codigo \in CODIGOS_CP_SEGURO
    THEN "seguro"
    ELSE IF \/ str_in(<<"C","P","-","P","A","T","R","O","N","A","L">>, linha_completa_upper)
            \/ str_in(<<"C","P"," ","P","A","T","R","O","N","A","L">>, linha_completa_upper)
            \/ codigo \in CODIGOS_CP_PATRONAL
    THEN "patronal"
    ELSE IF \/ str_in(<<"C","P","-","T","E","R","C","E","I","R","O","S">>, linha_completa_upper)
            \/ str_in(<<"C","P"," ","T","E","R","C","E","I","R","O","S">>, linha_completa_upper)
            \/ codigo \in CODIGOS_CP_TERCEIROS
    THEN "terceiros"
    ELSE None

\* _classificar_tributo(linha_completa_upper, codigo)
classificar_tributo(linha_completa_upper, codigo) ==
    IF codigo \in CODIGOS_IRRF \/ str_in(<<"I","R","R","F">>, linha_completa_upper) THEN "irrf"
    ELSE IF str_in(<<"I","R","L","S">>, linha_completa_upper) THEN "irls"
    ELSE IF (\E c \in CODIGOS_PIS : str_in(c, codigo)) \/ str_in(<<"P","I","S">>,
                                                          linha_completa_upper)
    THEN "pis"
    ELSE IF \/ \E c \in CODIGOS_COFINS : str_in(c, codigo)
            \/ str_in(<<"C","O","F","I","N","S">>, linha_completa_upper)
    THEN "cofins"
    ELSE None

\* linha_completa[:100]
descricao_de(linha_completa) == SubSeq(linha_completa, 1, Min(100, Len(linha_completa)))

\* "if valor is not None or tem_devedor or categoria or tributo": the debt
\* as Some, or NoneOpt
se_relevante(debito) ==
    IF \/ debito.valor # NoneOpt
       \/ debito.tem_devedor
       \/ debito.categoria # None
       \/ debito.tributo # None
    THEN Some(debito)
    ELSE NoneOpt

\* the competencia found in the row
competencia_da_linha(linha_completa, match_competencia) ==
    IF match_competencia.alt # 0
    THEN normalizar_competencia_rf(grupo(linha_completa, match_competencia, 1, 4))
    ELSE NoneOpt

\* the debt of a row with its code
debito_da_linha(linha_completa, linha_completa_upper, codigo, competencia, valor) ==
    se_relevante([codigo |-> codigo, competencia |-> competencia, valor |-> valor,
                  categoria |-> classificar_categoria(linha_completa_upper, codigo),
                  tributo |-> classificar_tributo(linha_completa_upper, codigo),
                  descricao |-> descricao_de(linha_completa),
                  linha_completa_upper |-> linha_completa_upper,
                  tem_devedor |-> \/ str_in(<<"D","E","V","E","D","O","R">>, linha_completa_upper)
                                  \/ str_in(<<"A","T","I","V","A">>, linha_completa_upper)])

\* the debt of a row with the match of the code in it
linha_com_codigo(linha, indices_colunas, linha_completa, match_codigo) ==
    IF match_codigo.alt = 0 THEN NoneOpt
    ELSE debito_da_linha(
             linha_completa, str_upper(linha_completa),
             SubSeq(linha_completa, match_codigo.pos[1], fim_de(match_codigo) - 1),
             competencia_da_linha(linha_completa, re_search(<<RxMesAno>>, linha_completa)),
             extrair_valor_da_linha(linha, indices_colunas))

\* _processar_linha_tabela(linha, indices_colunas), called with the dict of
\* _identificar_colunas_tabela, which is never empty: the row's debt as Some,
\* or NoneOpt
processar_linha_tabela(linha, indices_colunas) ==
    IF Len(linha) < 2 THEN NoneOpt
    ELSE seja(linha_completa_de(linha), LAMBDA linha_completa :
             linha_com_codigo(linha, indices_colunas, linha_completa,
                              re_search(<<RxCodigoLongo, RxCodigoCurto>>, linha_completa)))

\* the debts of rows i.. of a table, the header row skipped by the caller
RECURSIVE debitos_das_linhas_rf(_, _, _)
debitos_das_linhas_rf(tabela, indices_colunas, i) ==
    IF i > Len(tabela) THEN <<>>
    ELSE processar_linha_tabela(tabela[i], indices_colunas)
         \o debitos_das_linhas_rf(tabela, indices_colunas, i + 1)

\* "for tabela in tabelas": the debts of tables t..
RECURSIVE debitos_das_tabelas_rf(_, _)
debitos_das_tabelas_rf(tabelas, t) ==
    IF t > Len(tabelas) THEN <<>>
    ELSE (IF tabelas[t] = <<>> THEN <<>>
          ELSE debitos_das_linhas_rf(tabelas[t], identificar_colunas_tabela(tabelas[t][1]), 2))
         \o debitos_das_tabelas_rf(tabelas, t + 1)

\* padrao_geral under re.IGNORECASE:
\*   (\d{4}-\d{2}|\d{4}).*?(\d{2}/\d{4})?.*?([\d\.]+,\d{2}).*?DEVEDOR
\* The optional group is tried where the first ".*?" is empty and, when the
\* rest fails there, left out: whatever a longer first ".*?" would skip, the
\* second ".*?" skips as well.  Hence four alternatives, in the matcher's
\* order: each code form, with the competencia right after it or without.
RxGeralResto == <<AnyLazy>> \o RxValor \o <<AnyLazy>> \o LitI(<<"D","E","V","E","D","O","R">>)

padrao_geral ==
    <<RxCodigoLongo \o RxMesAno \o RxGeralResto, RxCodigoLongo \o RxGeralResto,
      RxCodigoCurto \o RxMesAno \o RxGeralResto, RxCodigoCurto \o RxGeralResto>>

\* the debt of a match of padrao_geral with its code and its text
debito_do_trecho(codigo, competencia, valor, linha_completa, linha_completa_upper) ==
    [codigo |-> codigo, competencia |-> competencia, valor |-> valor,
     categoria |-> classificar_categoria(linha_completa_upper, codigo),
     tributo |-> classificar_tributo(linha_completa_upper, codigo),
     descricao |-> descricao_de(linha_completa),
     linha_completa_upper |-> linha_completa_upper,
     tem_devedor |-> TRUE]

\* the debt a match of padrao_geral in str s yields; nc is the number of
\* items of the code
debito_do_match_nc(s, m, nc, tem_competencia) ==
    debito_do_trecho(
        grupo(s, m, 1, nc + 1),
        IF tem_competencia THEN normalizar_competencia_rf(grupo(s, m, nc + 1, nc + 4))
        ELSE NoneOpt,
        Some(converter_valor_br_para_float(
                 grupo(s, m, nc + (IF tem_competencia THEN 3 ELSE 0) + 2,
                       nc + (IF tem_competencia THEN 3 ELSE 0) + 5))),
        SubSeq(s, m.pos[1], fim_de(m) - 1),
        str_upper(SubSeq(s, m.pos[1], fim_de(m) - 1)))

debito_do_match(s, m) ==
    debito_do_match_nc(s, m, IF m.alt \in {1, 2} THEN 3 ELSE 1, m.alt \in {1, 3})

\* the debts the matches ms of padrao_geral in str s yield
debitos_dos_matches(s, ms) == [i \in 1..Len(ms) |-> debito_do_match(s, ms[i])]

\* the debts found in the text when the tables yield none
debitos_do_texto(texto) ==
    seja(juntar(texto), LAMBDA s : debitos_dos_matches(s, re_finditer(padrao_geral, s)))

\* "if valor": an amount that is neither None nor 0.0
valor_truthy(valor) == valor # NoneOpt /\ valor[1] # 0

\* the mutated update: every amount goes to seguro_total
atualiza_totais_tudo_seguro(contribuicoes, categoria, valor) ==
    IF valor_truthy(valor)
    THEN [contribuicoes EXCEPT !.seguro_total = @ + valor[1]]
    ELSE contribuicoes

\* "Atualiza totais": the amount added to the total of its category
atualiza_totais(contribuicoes, categoria, valor) ==
    IF categoria = "seguro" /\ valor_truthy(valor)
    THEN [contribuicoes EXCEPT !.seguro_total = @ + valor[1]]
    ELSE IF categoria = "patronal" /\ valor_truthy(valor)
    THEN [contribuicoes EXCEPT !.patronal_total = @ + valor[1]]
    ELSE IF categoria = "terceiros" /\ valor_truthy(valor)
    THEN [contribuicoes EXCEPT !.terceiros_total = @ + valor[1]]
    ELSE contribuicoes

\* tributo.upper(), the key of debitos_gerais
chave_tributo(tributo) ==
    CASE tributo = "irrf" -> "IRRF"
      [] tributo = "irls" -> "IRLS"
      [] tributo = "pis" -> "PIS"
      [] tributo = "cofins" -> "COFINS"

\* the body of "for debito in todos_debitos", applied to debts i..: the three
\* tests (categoria, tributo, Simples Nacional) are independent of each other
RECURSIVE processa_debitos(_, _, _)
processa_debitos(res, todos_debitos, i) ==
    IF i > Len(todos_debitos) THEN res
    ELSE LET debito == todos_debitos[i]
             item_detalhe ==
                 [competencia |-> debito.competencia, codigo |-> debito.codigo,
                  descricao |-> debito.descricao, categoria |-> debito.categoria,
                  valor |-> debito.valor, fonte |-> "receita_federal"]
             item_tributo ==
                 [competencia |-> debito.competencia, codigo |-> debito.codigo,
                  descricao |-> debito.descricao, valor |-> debito.valor,
                  situacao |-> IF debito.tem_devedor THEN "DEVEDOR" ELSE None]
             item_simples ==
                 [competencia |-> debito.competencia, codigo |-> debito.codigo,
                  descricao |-> debito.descricao, valor |-> debito.valor]
             r1 == IF debito.categoria # None
                   THEN [res EXCEPT !.contribuicoes =
                            atualiza_totais([@ EXCEPT !.detalhes = Append(@, item_detalhe)],
                                            debito.categoria, debito.valor)]
                   ELSE res
             r2 == IF debito.tributo # None
                   THEN [r1 EXCEPT !.debitos_gerais[chave_tributo(debito.tributo)] =
                            Append(@, item_tributo)]
                   ELSE r1
             r3 == IF str_in(<<"S","I","M","P","L","E","S"," ","N","A","C">>,
                     debito.linha_completa_upper) /\ debito.tem_devedor
                   THEN [r2 EXCEPT !.simples_nacional.tem_pendencias = TRUE,
                                   !.simples_nacional.debitos = Append(@, item_simples)]
                   ELSE r2
         IN  processa_debitos(r3, todos_debitos, i + 1)

\* the terms of a Simples Nacional instalment plan
TermosParcelamento == <<
    \* 1: "parcsn"
    <<"p","a","r","c","s","n">>,
    \* 2: "parcmei"
    <<"p","a","r","c","m","e","i">>,
    \* 3: "simples nacional - em parcelamento"
    <<"s","i","m","p","l","e","s"," ","n","a","c","i","o","n","a","l"," ","-"," ","e","m"," ","p",
      "a","r","c","e","l","a","m","e","n","t","o">>,
    \* 4: "pende^ncia - parcelamento"
    <<"p","e","n","d","e^","n","c","i","a"," ","-"," ","p","a","r","c","e","l","a","m","e","n",
      "t","o">>,
    \* 5: "pendencia - parcelamento"
    <<"p","e","n","d","e","n","c","i","a"," ","-"," ","p","a","r","c","e","l","a","m","e","n","t",
      "o">>
  >>

\* parcelas\s+em\s+atraso.*?(\d+) under re.IGNORECASE
RxParcelasAtraso == LitIS(<<"p","a","r","c","e","l","a","s"," ","e","m"," ","a","t","r","a","s",
        "o">>) \o <<AnyLazy, Ch(Digits, 1, -1)>>

\* int(match_atraso.group(1)) of the first match in str s as Some, or NoneOpt
parcelas_atraso_de(s) ==
    seja(re_search(<<RxParcelasAtraso>>, s), LAMBDA match_atraso :
        IF match_atraso.alt # 0
        THEN Some(int_de(grupo(s, match_atraso, Len(RxParcelasAtraso),
                               Len(RxParcelasAtraso) + 1)))
        ELSE NoneOpt)

\* the kind of instalment plan the lowered text names
tipo_parcelamento(texto_lower) ==
    IF text_in(<<"p","a","r","c","s","n">>, texto_lower) THEN "PARCSN"
    ELSE IF text_in(<<"p","a","r","c","m","e","i">>, texto_lower) THEN "PARCMEI"
    ELSE None

\* resultado['simples_nacional']['parcelamento'] for the text
parcelamento_simples(texto) ==
    seja(text_lower(texto), LAMBDA texto_lower :
        IF \E i \in 1..Len(TermosParcelamento) : text_in(TermosParcelamento[i], texto_lower)
        THEN [tem_parcelamento |-> TRUE, tipo |-> tipo_parcelamento(texto_lower),
              parcelas_atraso |-> parcelas_atraso_de(juntar(texto))]
        ELSE [tem_parcelamento |-> FALSE, tipo |-> None, parcelas_atraso |-> NoneOpt])

\* [A-Z] under re.IGNORECASE
Letras == {LowerChars[i] : i \in 1..26} \cup {UpperChars[i] : i \in 1..26}

\* \s*\(?\s*SISPAR\s*\)?
RxEntreParentesesSispar ==
    <<Ch(Whitespace, 0, -1), Ch({"("}, 0, 1), Ch(Whitespace, 0, -1)>> \o LitI(<<"S","I","S","P",
            "A","R">>)
        \o <<Ch(Whitespace, 0, -1), Ch({")"}, 0, 1)>>

\* padroes_inicio, under re.IGNORECASE
PadroesInicioSispar ==
    <<LitI(<<"P","e","n","d">>) \o <<Ch({"e^", "E^", "e", "E"}, 1, 1)>> \o LitI(<<"n","c","i",
            "a">>)
          \o <<Ch(Whitespace, 0, -1), Ch({"-", "--"}, 1, 1), Ch(Whitespace, 0, -1)>>
          \o LitI(<<"P","a","r","c","e","l","a","m","e","n","t","o">>) \o RxEntreParentesesSispar,
      LitI(<<"P","a","r","c","e","l","a","m","e","n","t","o">>) \o RxEntreParentesesSispar,
      LitIS(<<"P","a","r","c","e","l","a","m","e","n","t","o"," ","c","o","m"," ","E","x","i","g",
              "i","b","i","l","i","d","a","d","e"," ","S","u","s","p","e","n","s",
              "a">>) \o RxEntreParentesesSispar,
      LitIS(<<"N","E","G","O","C","I","A","D","A"," ","N","O"," ","S","I","S","P","A","R">>)>>

\* the match of the first of padroes[i..] that str s has a match of
RECURSIVE primeiro_match(_, _, _)
primeiro_match(padroes, s, i) ==
    IF i > Len(padroes) THEN [alt |-> 0, pos |-> <<>>]
    ELSE seja(re_search(<<padroes[i]>>, s), LAMBDA m :
             IF m.alt # 0 THEN m ELSE primeiro_match(padroes, s, i + 1))

\* the characters of the block after the end of the pattern that starts it
TamanhoBlocoSispar == 2000

\* bloco_sispar as Some, or NoneOpt when the str has none of padroes_inicio
bloco_sispar_de(s) ==
    seja(primeiro_match(PadroesInicioSispar, s, 1), LAMBDA m :
        IF m.alt = 0 THEN NoneOpt
        ELSE Some(SubSeq(s, m.pos[1], Min(Len(s), fim_de(m) - 1 + TamanhoBlocoSispar))))

\* s.split('\n')
RECURSIVE split_linhas(_)
split_linhas(s) ==
    seja({i \in 1..Len(s) : s[i] = "\n"}, LAMBDA quebras :
        IF quebras = {} THEN <<s>>
        ELSE <<SubSeq(s, 1, menor(quebras) - 1)>>
             \o split_linhas(SubSeq(s, menor(quebras) + 1, Len(s))))

\* Conta\s+(?P<conta>\d{6,12})\s* and (?P<tipo>[A-Z][A-Z\s\-]+)
RxConta == LitI(<<"C","o","n","t",
        "a">>) \o <<Ch(Whitespace, 1, -1), Ch(Digits, 6, 12), Ch(Whitespace, 0, -1)>>

RxTipoConta == <<Ch(Letras, 1, 1), Ch(Letras \cup Whitespace \cup {"-"}, 1, -1)>>

\* ^\s*(?P<conta>\d{6,12})\s+(?P<tipo>[A-Z][A-Z\s\-]+)
RxContaNaLinha ==
    <<Ch(Whitespace, 0, -1), Ch(Digits, 6, 12), Ch(Whitespace, 1, -1)>> \o RxTipoConta

\* conta and tipo of the first of linhas[i..] that starts with an account
RECURSIVE conta_das_linhas(_, _)
conta_das_linhas(linhas, i) ==
    IF i > Len(linhas) THEN [conta |-> NoneOpt, tipo |-> NoneOpt]
    ELSE seja(re_match(<<RxContaNaLinha>>, linhas[i]), LAMBDA match_alt :
             IF match_alt.alt # 0
             THEN [conta |-> Some(grupo(linhas[i], match_alt, 2, 3)),
                   tipo |-> Some(strip(limpa(grupo(linhas[i], match_alt, 4, 6))))]
             ELSE conta_das_linhas(linhas, i + 1))

\* conta and tipo of the block: after the word Conta or, when the block has
\* no such account, at the start of a line
conta_e_tipo(bloco) ==
    seja(re_search(<<RxConta \o RxTipoConta, RxConta>>, bloco), LAMBDA match_conta :
        IF match_conta.alt = 0 THEN conta_das_linhas(split_linhas(bloco), 1)
        ELSE [conta |-> Some(grupo(bloco, match_conta, 7, 8)),
              tipo |-> IF match_conta.alt = 1
                       THEN Some(strip(limpa(grupo(bloco, match_conta, 9, 11))))
                       ELSE NoneOpt])

\* Modalidade[:\s]+(?P<modalidade>[^\n]+) under re.IGNORECASE
RxModalidade ==
    LitI(<<"M","o","d","a","l","i","d","a","d",
            "e">>) \o <<Ch({":"} \cup Whitespace, 1, -1), NotCh({"\n"}, 1, -1)>>

modalidade_de(bloco) ==
    seja(re_search(<<RxModalidade>>, bloco), LAMBDA match_modalidade :
        IF match_modalidade.alt # 0
        THEN Some(strip(limpa(grupo(bloco, match_modalidade, Len(RxModalidade),
                                    Len(RxModalidade) + 1))))
        ELSE NoneOpt)

\* regime, from bloco_sispar.upper()
regime_de(bloco_upper) ==
    IF str_in(<<"S","I","M","P","L","E","S">>, bloco_upper) /\ str_in(<<"N","A","C","I","O","N",
                                                               "A","L">>, bloco_upper)
    THEN "SIMPLES NACIONAL"
    ELSE IF \/ str_in(<<"P","R","E","V","I","D","E","N","C","I","A","R">>, bloco_upper)
            \/ str_in(<<"P","R","E","V","I","D","E","N","C","I","[","A'","A","]","R","I","A">>,
                    bloco_upper)
    THEN "PREVIDENCIARIO"
    ELSE IF \/ str_in(<<"N","A","O"," ","P","R","E","V","I","D","E","N","C","I","A","R">>,
               bloco_upper)
            \/ str_in(<<"N","A~","O"," ","P","R","E","V","I","D","E","N","C","I","A","R">>,
                    bloco_upper)
            \/ str_in(<<"N","A~","O"," ","P","R","E","V","I","D","E","N","C","I","A'","R","I",
                    "A">>, bloco_upper)
    THEN "NAO PREVIDENCIARIO"
    ELSE None

\* AT[EE']\s+(\d{1,3})\s+MESES under re.IGNORECASE
RxLimiteMeses ==
    LitI(<<"A","T">>) \o <<Ch({"E", "e", "E'", "e'"}, 1, 1), Ch(Whitespace, 1, -1),
                      Ch(Digits, 1, 3), Ch(Whitespace, 1, -1)>> \o LitI(<<"M","E","S","E","S">>)

\* the greatest limit of months taken for one
LimiteMaximoMeses == 240

limite_maximo_meses_de(bloco_normalizado) ==
    seja(re_search(<<RxLimiteMeses>>, bloco_normalizado), LAMBDA match_limite :
        IF match_limite.alt = 0 THEN NoneOpt
        ELSE seja(int_de(grupo(bloco_normalizado, match_limite, 5, 6)), LAMBDA limite :
                 IF 1 <= limite /\ limite <= LimiteMaximoMeses THEN Some(limite) ELSE NoneOpt))

\* exigibilidade_suspensa: True, False or None
exigibilidade_suspensa_de(bloco_normalizado) ==
    IF re_search(<<LitIS(<<"E","X","I","G","I","B","I","L","I","D","A","D","E"," ","S","U","S",
            "P","E","N","S","A">>)>>, bloco_normalizado).alt # 0
    THEN Some(TRUE)
    ELSE IF re_search(<<LitIS(<<"E","X","I","G","I","B","I","L","I","D","A","D","E"," ","N","A~",
            "O"," ","S","U","S","P","E","N","S","A">>),
                        LitIS(<<"E","X","I","G","I","B","I","L","I","D","A","D","E"," ","N","A",
                                "O"," ","S","U","S","P","E","N","S","A">>)>>,
                                bloco_normalizado).alt # 0
    THEN Some(FALSE)
    ELSE NoneOpt

\* (?:NEGOCIADO|NEGOCIADA).*?SISPAR|SISPAR.*?(?:NEGOCIADO|NEGOCIADA)
RxNegociadoNoSispar ==
    <<LitI(<<"N","E","G","O","C","I","A","D","O">>) \o <<AnyLazy>> \o LitI(<<"S","I","S","P","A",
            "R">>),
      LitI(<<"N","E","G","O","C","I","A","D","A">>) \o <<AnyLazy>> \o LitI(<<"S","I","S","P","A",
              "R">>),
      LitI(<<"S","I","S","P","A","R">>) \o <<AnyLazy>> \o LitI(<<"N","E","G","O","C","I","A","D",
              "O">>),
      LitI(<<"S","I","S","P","A","R">>) \o <<AnyLazy>> \o LitI(<<"N","E","G","O","C","I","A","D",
              "A">>)>>

\* negociado_no_sispar: True or None
negociado_no_sispar_de(bloco_normalizado) ==
    IF re_search(RxNegociadoNoSispar, bloco_normalizado).alt # 0 THEN Some(TRUE) ELSE NoneOpt

\* ObservacaoSispar: "O relato'rio da Receita Federal na~o informa quantidade de parcelas, valores ou compete^ncias; e' necessa'ria consulta manual ao PGFN/SISPAR."
ObservacaoSispar ==
    <<"O"," ","r","e","l","a","t","o'","r","i","o"," ","d","a"," ","R","e","c","e","i","t","a",
      " ","F","e","d","e","r","a","l"," ","n","a~","o"," ","i","n","f","o","r","m","a"," ","q",
      "u","a","n","t","i","d","a","d","e"," ","d","e"," ","p","a","r","c","e","l","a","s",","," ",
      "v","a","l","o","r","e","s"," ","o","u"," ","c","o","m","p","e","t","e^","n","c","i","a",
      "s",";"," ","e'"," ","n","e","c","e","s","s","a'","r","i","a"," ","c","o","n","s","u","l",
      "t","a"," ","m","a","n","u","a","l"," ","a","o"," ","P","G","F","N","/","S","I","S","P","A",
      "R",".">>

\* the dict parcelamento with, for quantidade_parcelas, the limit of months
\* the block states
parcelamento_sispar_com_limite(conta_tipo, modalidade, regime, limite_maximo_meses, negociado_no_sispar, exigibilidade_suspensa) ==
    [conta |-> conta_tipo.conta, tipo |-> conta_tipo.tipo, modalidade |-> modalidade,
     regime |-> regime, limite_maximo_meses |-> limite_maximo_meses,
     negociado_no_sispar |-> negociado_no_sispar,
     exigibilidade_suspensa |-> exigibilidade_suspensa,
     quantidade_parcelas |-> limite_maximo_meses, valor_total_parcelado |-> NoneOpt,
     valor_parcela |-> NoneOpt, competencias |-> <<>>,
     necessita_consulta_manual_pgfn |-> TRUE, observacao |-> Some(ObservacaoSispar),
     conferido_pelo_usuario |-> FALSE]

\* the dict parcelamento
parcelamento_sispar(conta_tipo, modalidade, regime, limite_maximo_meses, negociado_no_sispar, exigibilidade_suspensa) ==
    [conta |-> conta_tipo.conta, tipo |-> conta_tipo.tipo, modalidade |-> modalidade,
     regime |-> regime, limite_maximo_meses |-> limite_maximo_meses,
     negociado_no_sispar |-> negociado_no_sispar,
     exigibilidade_suspensa |-> exigibilidade_suspensa,
     quantidade_parcelas |-> NoneOpt, valor_total_parcelado |-> NoneOpt,
     valor_parcela |-> NoneOpt, competencias |-> <<>>,
     necessita_consulta_manual_pgfn |-> TRUE, observacao |-> Some(ObservacaoSispar),
     conferido_pelo_usuario |-> FALSE]

\* the parcelamento of a block, bloco_normalizado the block with every run
\* of white space made one " "
parcelamento_do_bloco(bloco, bloco_normalizado) ==
    parcelamento_sispar(conta_e_tipo(bloco), modalidade_de(bloco), regime_de(str_upper(bloco)),
                        limite_maximo_meses_de(bloco_normalizado),
                        negociado_no_sispar_de(bloco_normalizado),
                        exigibilidade_suspensa_de(bloco_normalizado))

\* resultado['sispar'] for the block, NoneOpt when the text has none
sispar_do_bloco(bloco_sispar) ==
    IF bloco_sispar = NoneOpt THEN [tem_sispar |-> FALSE, parcelamentos |-> <<>>]
    ELSE [tem_sispar |-> TRUE,
          parcelamentos |->
              <<parcelamento_do_bloco(bloco_sispar[1],
                                      colapsa(bloco_sispar[1], Whitespace, 1))>>]

\* the result with the sections parcelamento and sispar of the text
com_parcelamentos(r, texto) ==
    [r EXCEPT !.simples_nacional.parcelamento = parcelamento_simples(texto),
              !.sispar = sispar_do_bloco(bloco_sispar_de(juntar(texto)))]

\* the dict processar_receita starts from, without the keys pgfn,
\* pgfn_previdencia and previdencia
ReceitaInicial ==
    [contribuicoes |-> [seguro_total |-> 0, patronal_total |-> 0, terceiros_total |-> 0,
                        total_geral |-> 0, detalhes |-> <<>>],
     simples_nacional |->
         [tem_pendencias |-> FALSE, debitos |-> <<>>,
          parcelamento |-> [tem_parcelamento |-> FALSE, tipo |-> None,
                            parcelas_atraso |-> NoneOpt]],
     debitos_gerais |-> [IRRF |-> <<>>, IRLS |-> <<>>, PIS |-> <<>>, COFINS |-> <<>>],
     sispar |-> [tem_sispar |-> FALSE, parcelamentos |-> <<>>]]

\* the debts processar_receita works on: those of the tables or, when there
\* is none, those of the text
todos_debitos_de(texto, tabelas) ==
    seja(debitos_das_tabelas_rf(tabelas, 1), LAMBDA das_tabelas :
        IF das_tabelas # <<>> THEN das_tabelas ELSE debitos_do_texto(texto))

\* total_geral, the sum of the three totals
com_total_geral(r) ==
    [r EXCEPT !.contribuicoes.total_geral =
        r.contribuicoes.seguro_total + r.contribuicoes.patronal_total
        + r.contribuicoes.terceiros_total]

\* processar_receita(texto, tabelas): contribuicoes, debitos_gerais,
\* simples_nacional and sispar.  The sections PGFN and previdencia of the
\* code write the keys pgfn, pgfn_previdencia and previdencia only.
processar_receita(texto, tabelas) ==
    com_parcelamentos(
        com_total_geral(processa_debitos(ReceitaInicial, todos_debitos_de(texto, tabelas), 1)),
        texto)

\* the documents processar_receita is run on: header rows, rows and lines
CabecalhoSaldos == <<
    \* 1: "Co'digo"
    <<"C","o'","d","i","g","o">>,
    \* 2: "Descric,a~o"
    <<"D","e","s","c","r","i","c,","a~","o">>,
    \* 3: "Compete^ncia"
    <<"C","o","m","p","e","t","e^","n","c","i","a">>,
    \* 4: "Vl.Original"
    <<"V","l",".","O","r","i","g","i","n","a","l">>,
    \* 5: "Sdo.Devedor"
    <<"S","d","o",".","D","e","v","e","d","o","r">>
  >>

CabecalhoSimples == <<
    \* 1: "Co'd"
    <<"C","o'","d">>,
    \* 2: "Descric,a~o"
    <<"D","e","s","c","r","i","c,","a~","o">>,
    \* 3: "Peri'odo"
    <<"P","e","r","i'","o","d","o">>,
    \* 4: "Valor"
    <<"V","a","l","o","r">>,
    \* 5: "Saldo"
    <<"S","a","l","d","o">>
  >>

LinhasTabelaRF ==
    <<  <<<<"1","1","3","8","-","0","1">>, <<"C","P","-","P","A","T","R","O","N","A","L">>, <<"0",
            "1","/","2","0","2","4">>, <<"2",".","0","0","0",",","0","0">>, <<"1",".","2","3","4",
            ",","5","6">>>>,
        <<<<"1","0","8","2","-","0","1">>, <<"C","P","-","S","E","G","U","R",".">>, <<"0","2","/",
                "2","0","2","4">>, <<>>, <<"5","0","0",",","0","0">>>>,
        <<<<"1","1","7","0","-","0","1">>, <<"C","P","-","T","E","R","C","E","I","R","O","S">>,
                <<"0","3","/","2","0","2","4">>, <<"3","0","0",",","1","0">>, <<>> >>,
        <<<<"0","5","6","1","-","0","7">>, <<"I","R","R","F">>, <<"0","1","/","2","0","2","4">>,
                <<>>, <<"9","9",",","9","0">>>>,
        <<<<"1","1","3","8","-","0","1">>, <<"C","P","-","P","A","T","R","O","N","A","L"," ","P",
                "I","S">>, <<"0","4","/","2","0","2","4">>, <<>>, <<"1",".","0","0","0",",","0",
                "0">>>>,
        <<<<"1","6","4","6","-","0","1">>, <<>>, <<>>, <<>>, <<>> >>,
        <<<<"T","o","t","a","l">>, <<>>, <<>>, <<>>, <<"9",".","9","9","9",",","9","9">>>>,
        <<<<"5","9","5","2">>, <<"S","I","M","P","L","E","S"," ","N","A","C"," ","D","E","V","E",
                "D","O","R">>, <<"0","5","/","2","0","2","4">>, <<>>, <<"7","0","0",",","0",
                "0">>>>  >>

TabelasRF ==
    {<<>>, <<CabecalhoSaldos>>, <<CabecalhoSimples, LinhasTabelaRF[1]>>,
     <<CabecalhoSaldos, LinhasTabelaRF[1], LinhasTabelaRF[5]>>}
    \cup {<<CabecalhoSaldos, LinhasTabelaRF[i]>> : i \in 1..Len(LinhasTabelaRF)}

LinhasTextoRF == <<
    \* 1: "0561-0701/2024 IRRF 50,00 devedor"
    <<"0","5","6","1","-","0","7","0","1","/","2","0","2","4"," ","I","R","R","F"," ","5","0",",",
      "0","0"," ","d","e","v","e","d","o","r">>,
    \* 2: "1138-01 CP-PATRONAL 01/2024 1.234,56 DEVEDOR"
    <<"1","1","3","8","-","0","1"," ","C","P","-","P","A","T","R","O","N","A","L"," ","0","1","/",
      "2","0","2","4"," ","1",".","2","3","4",",","5","6"," ","D","E","V","E","D","O","R">>
  >>

TextosRF == {<<>>, <<LinhasTextoRF[2]>>, LinhasTextoRF}

MaxTabelasRF == 2

\* lines of Receita documents with instalment plans
LinhasParcelamentos == <<
    \* 1: "Pende^ncia - Parcelamento (SISPAR)"
    <<"P","e","n","d","e^","n","c","i","a"," ","-"," ","P","a","r","c","e","l","a","m","e","n",
      "t","o"," ","(","S","I","S","P","A","R",")">>,
    \* 2: "Conta 1234567 SIMPLES NACIONAL"
    <<"C","o","n","t","a"," ","1","2","3","4","5","6","7"," ","S","I","M","P","L","E","S"," ","N",
      "A","C","I","O","N","A","L">>,
    \* 3: "Modalidade: PREVIDENCIARIO ATE' 60 MESES"
    <<"M","o","d","a","l","i","d","a","d","e",":"," ","P","R","E","V","I","D","E","N","C","I","A",
      "R","I","O"," ","A","T","E'"," ","6","0"," ","M","E","S","E","S">>,
    \* 4: "Pende^ncia - Parcelamento (SIEFPAR)"
    <<"P","e","n","d","e^","n","c","i","a"," ","-"," ","P","a","r","c","e","l","a","m","e","n",
      "t","o"," ","(","S","I","E","F","P","A","R",")">>,
    \* 5: "Parcelas em Atraso: 1"
    <<"P","a","r","c","e","l","a","s"," ","e","m"," ","A","t","r","a","s","o",":"," ","1">>,
    \* 6: "Valor em Atraso: 571,90"
    <<"V","a","l","o","r"," ","e","m"," ","A","t","r","a","s","o",":"," ","5","7","1",",","9","0">>,
    \* 7: "Na~o foram detectadas pende^ncias."
    <<"N","a~","o"," ","f","o","r","a","m"," ","d","e","t","e","c","t","a","d","a","s"," ","p",
      "e","n","d","e^","n","c","i","a","s",".">>,
    \* 8: "NEGOCIADA NO SISPAR 12 parcelas R$ 1.000,00"
    <<"N","E","G","O","C","I","A","D","A"," ","N","O"," ","S","I","S","P","A","R"," ","1","2"," ",
      "p","a","r","c","e","l","a","s"," ","R","$"," ","1",".","0","0","0",",","0","0">>,
    \* 9: "1138-01 CP-PATRONAL 01/2024 1.234,56 DEVEDOR"
    <<"1","1","3","8","-","0","1"," ","C","P","-","P","A","T","R","O","N","A","L"," ","0","1","/",
      "2","0","2","4"," ","1",".","2","3","4",",","5","6"," ","D","E","V","E","D","O","R">>
  >>

MaxLinhasParcelamentos == 2

\* the text of an instalment plan with one parcela in arrears
TextoSiefparAtraso ==
    <<LinhasParcelamentos[4], LinhasParcelamentos[5], LinhasParcelamentos[6]>>

\* the lines that follow the start of a SISPAR block: markers of the regime
LinhasRegime == <<
    \* 1: "Modalidade: NAO PREVIDENCIARIO"
    <<"M","o","d","a","l","i","d","a","d","e",":"," ","N","A","O"," ","P","R","E","V","I","D","E",
      "N","C","I","A","R","I","O">>,
    \* 2: "De'bitos NA~O PREVIDENCIARIOS"
    <<"D","e'","b","i","t","o","s"," ","N","A~","O"," ","P","R","E","V","I","D","E","N","C","I",
      "A","R","I","O","S">>,
    \* 3: "Natureza: NA~O PREVIDENCIA'RIA"
    <<"N","a","t","u","r","e","z","a",":"," ","N","A~","O"," ","P","R","E","V","I","D","E","N",
      "C","I","A'","R","I","A">>,
    \* 4: "Modalidade: PREVIDENCIARIO ATE' 60 MESES"
    <<"M","o","d","a","l","i","d","a","d","e",":"," ","P","R","E","V","I","D","E","N","C","I","A",
      "R","I","O"," ","A","T","E'"," ","6","0"," ","M","E","S","E","S">>,
    \* 5: "Conta 1234567 SIMPLES NACIONAL"
    <<"C","o","n","t","a"," ","1","2","3","4","5","6","7"," ","S","I","M","P","L","E","S"," ","N",
      "A","C","I","O","N","A","L">>,
    \* 6: "Parcelamento ordina'rio"
    <<"P","a","r","c","e","l","a","m","e","n","t","o"," ","o","r","d","i","n","a'","r","i","o">>
  >>

MaxLinhasRegime == 2

\* ------------------------------------------------------------------------
\* parsers/fgts.py
\* ------------------------------------------------------------------------
\* \d{2}\.\d{3}\.\d{3}/\d{4}-\d{2} between two \b: a formatted CNPJ
RxCnpj ==
    <<WordBoundary, Ch(Digits, 2, 2)>> \o Lit(<<".">>) \o <<Ch(Digits, 3, 3)>> \o Lit(<<".">>)
        \o <<Ch(Digits, 3, 3)>> \o Lit(<<"/">>) \o <<Ch(Digits, 4, 4)>> \o Lit(<<"-">>)
        \o <<Ch(Digits, 2, 2), WordBoundary>>

\* the first formatted CNPJ of str s as Some, or NoneOpt (fgts._extrair_cnpj
\* and the search interpretar_pdf_receita makes)
primeiro_cnpj(s) ==
    seja(re_search(<<RxCnpj>>, s), LAMBDA m :
        IF m.alt # 0 THEN Some(SubSeq(s, m.pos[1], fim_de(m) - 1)) ELSE NoneOpt)

\* [:\s]+ and \d{2}/\d{2}/\d{4}
DoisPontosOuEspaco == <<Ch({":"} \cup Whitespace, 1, -1)>>

RxData ==
    <<Ch(Digits, 2, 2)>> \o Lit(<<"/">>) \o <<Ch(Digits, 2, 2)>> \o Lit(<<"/">>)
        \o <<Ch(Digits, 4, 4)>>

\* .*?(?=Validade|Certificac,a~o|$) under re.IGNORECASE | re.DOTALL
RxAteValidade ==
    <<AnyLazyDotAll, Lookahead(<<LitI(<<"V","a","l","i","d","a","d","e">>), LitI(<<"C","e","r",
            "t","i","f","i","c","a","c,","a~","o">>)>>, TRUE)>>

\* the alternatives of (pend[e^e]ncias?|em\s+atraso|na~o\s+recolhido|de'bitos?|debitos?)
InicioSecaoPendencias ==
    <<LitI(<<"p","e","n","d">>) \o <<Ch({"e^", "E^", "e", "E"}, 1, 1)>> \o LitI(<<"n","c","i",
            "a">>)
          \o <<Ch({"s", "S"}, 0, 1)>>,
      LitIS(<<"e","m"," ","a","t","r","a","s","o">>),
      LitIS(<<"n","a~","o"," ","r","e","c","o","l","h","i","d","o">>),
      LitI(<<"d","e'","b","i","t","o">>) \o <<Ch({"s", "S"}, 0, 1)>>,
      LitI(<<"d","e","b","i","t","o">>) \o <<Ch({"s", "S"}, 0, 1)>> >>

\* (pend[e^e]ncias?|em\s+atraso|na~o\s+recolhido|de'bitos?|debitos?)
\*     .*?(?=Validade|Certificac,a~o|$) under re.IGNORECASE | re.DOTALL
seguido_de(inicios, resto) == [i \in 1..Len(inicios) |-> inicios[i] \o resto]

RxSecaoPendencias == seguido_de(InicioSecaoPendencias, RxAteValidade)

\* the str in which processar_fgts looks for competencias: the section of
\* pendencies when the text has one, the whole text otherwise
texto_busca_fgts(s) ==
    seja(re_search(RxSecaoPendencias, s), LAMBDA match_secao :
        IF match_secao.alt # 0 THEN SubSeq(s, match_secao.pos[1], fim_de(match_secao) - 1)
        ELSE s)

\* the test of a text that holds the name of the certificate only
fgts_regular_so_certificado(texto) ==
    seja(text_lower(texto), LAMBDA texto_lower :
        \/ text_in(<<"c","e","r","t","i","f","i","c","a","d","o"," ","d","e"," ","r","e","g","u",
                "l","a","r","i","d","a","d","e"," ","d","o"," ","f","g","t","s">>, texto_lower)
        \/ text_in(<<"c","r","f">>, texto_lower))

\* the text is that of a certificate in good standing
fgts_regular(texto) ==
    seja(text_lower(texto), LAMBDA texto_lower :
        /\ \/ text_in(<<"c","e","r","t","i","f","i","c","a","d","o"," ","d","e"," ","r","e","g",
                "u","l","a","r","i","d","a","d","e"," ","d","o"," ","f","g","t","s">>,
                texto_lower)
           \/ text_in(<<"c","r","f">>, texto_lower)
        /\ \/ text_in(<<"e","n","c","o","n","t","r","a","-","s","e"," ","e","m"," ","s","i","t",
                "u","a","c,","a~","o"," ","r","e","g","u","l","a","r">>, texto_lower)
           \/ text_in(<<"s","i","t","u","a","c,","a~","o"," ","r","e","g","u","l","a","r">>,
                   texto_lower))

\* the strs the matches ms took in str s
tokens_dos_matches(s, ms) == {SubSeq(s, ms[i].pos[1], fim_de(ms[i]) - 1) : i \in 1..Len(ms)}

\* competencias_encontradas: the set of the tokens MM/AAAA and AAAA found
competencias_encontradas(texto) ==
    IF fgts_regular(texto) THEN {}
    ELSE seja(texto_busca_fgts(juntar(texto)), LAMBDA busca :
             tokens_dos_matches(busca, re_finditer(<<RxMesAno, RxCodigoCurto>>, busca)))

\* the orders in which a set can be iterated
Ordens(S) ==
    {f \in [1..Cardinality(S) -> S] : \A i, j \in 1..Cardinality(S) : f[i] = f[j] => i = j}

\* ObservacaoSemDebitosFgts: "Na~o ha' de'bitos identificados no peri'odo analisado."
ObservacaoSemDebitosFgts ==
    <<"N","a~","o"," ","h","a'"," ","d","e'","b","i","t","o","s"," ","i","d","e","n","t","i","f",
      "i","c","a","d","o","s"," ","n","o"," ","p","e","r","i'","o","d","o"," ","a","n","a","l",
      "i","s","a","d","o",".">>

\* the debt of a competencia, <<>> when it does not normalize
debito_da_competencia(comp_normalizada) ==
    IF comp_normalizada # NoneOpt
    THEN <<[competencia |-> comp_normalizada[1], valor |-> NoneOpt, situacao |-> "EM ABERTO"]>>
    ELSE <<>>

\* the debts of the competencias ordem[i..], those that normalize
RECURSIVE debitos_fgts(_, _)
debitos_fgts(ordem, i) ==
    IF i > Len(ordem) THEN <<>>
    ELSE debito_da_competencia(normalizar_competencia_rf(ordem[i]))
         \o debitos_fgts(ordem, i + 1)

\* the dict of an irregular document with its debts
fgts_irregular(debitos) ==
    [situacao |-> "IRREGULAR", debitos |-> debitos,
     observacao |-> IF debitos = <<>> THEN Some(ObservacaoSemDebitosFgts) ELSE NoneOpt]

\* processar_fgts(texto), the set competencias_encontradas iterated in the
\* order ordem
processar_fgts(texto, ordem) ==
    IF fgts_regular(texto)
    THEN [situacao |-> "REGULAR", debitos |-> <<>>, observacao |-> NoneOpt]
    ELSE fgts_irregular(debitos_fgts(ordem, 1))

\* lines of FGTS documents
FgtsLinhas == <<
    \* 1: "CRF"
    <<"C","R","F">>,
    \* 2: "situac,a~o regular"
    <<"s","i","t","u","a","c,","a~","o"," ","r","e","g","u","l","a","r">>,
    \* 3: "Pendencias 01/2024"
    <<"P","e","n","d","e","n","c","i","a","s"," ","0","1","/","2","0","2","4">>,
    \* 4: "02/2024 2024"
    <<"0","2","/","2","0","2","4"," ","2","0","2","4">>,
    \* 5: "Validade 03/2023"
    <<"V","a","l","i","d","a","d","e"," ","0","3","/","2","0","2","3">>,
    \* 6: "em atraso 01/2024 02/2024"
    <<"e","m"," ","a","t","r","a","s","o"," ","0","1","/","2","0","2","4"," ","0","2","/","2","0",
      "2","4">>
  >>

MaxLinhasFgts == 3

\* ------------------------------------------------------------------------
\* The parser entry points: interpretar_pdf_receita, interpretar_pdf_fgts,
\* interpretar_pdf_sefaz
\* ------------------------------------------------------------------------
\* A PDF is [nome, texto, tabelas]: its path, the text _extrair_texto_completo
\* returns for it and the tables _extrair_tabelas_estruturadas returns.

\* the mutated guard: the parsed value is written whatever the field holds
se_vazio_sempre(atual, novo) == novo

\* "if not resultado.<campo>: resultado.<campo> = novo"
se_vazio(atual, novo) == IF truthy_str(atual) THEN atual ELSE novo

\* str(n) for n >= 0
RECURSIVE str_de_int(_)
str_de_int(n) ==
    IF n < 10 THEN <<<<"0","1","2","3","4","5","6","7","8","9">>[n + 1]>>
    ELSE str_de_int(n \div 10) \o str_de_int(n % 10)

\* [a~a] under re.IGNORECASE
ATil == <<Ch({"a~", "A~", "a", "A"}, 1, 1)>>

\* Raz[a~a]o\s+Social[:\s]+
RxRazaoSocial ==
    LitI(<<"R","a","z">>) \o ATil \o LitIS(<<"o"," ","S","o","c","i","a",
            "l">>) \o DoisPontosOuEspaco

\* [\d/]+
RxDigitosBarras == <<Ch(Digits \cup {"/"}, 1, -1)>>

\* ---- Receita Federal ----
\* ErroLeituraPdf: "Erro de leitura do PDF."
ErroLeituraPdf ==
    <<"E","r","r","o"," ","d","e"," ","l","e","i","t","u","r","a"," ","d","o"," ","P","D","F",".">>

\* the name after "Raza~o Social", up to the line's end or to "CNPJ"
requerente_receita(s) ==
    LET nome == <<Lazy(NotCh({"\n"}, 1, -1))>>
        m == re_search(<<RxRazaoSocial \o nome
                           \o <<Lookahead(<<Lit(<<"\n">>), LitI(<<"C","N","P","J">>)>>,
                                   FALSE)>> >>, s)
    IN  IF m.alt # 0 THEN Some(limpa(grupo_apos(s, m, RxRazaoSocial, nome))) ELSE NoneOpt

\* "for padrao in padroes_data": the first date DD/MM/AAAA one of the
\* patterns i.. finds, as Some, or NoneOpt
RECURSIVE data_consulta_receita(_, _, _)
data_consulta_receita(s, padroes, i) ==
    IF i > Len(padroes) THEN NoneOpt
    ELSE LET m == re_search(<<padroes[i] \o RxDigitosBarras>>, s)
             data_str == grupo_apos(s, m, padroes[i], RxDigitosBarras)
         IN  IF m.alt # 0 /\ re_match(<<RxData>>, data_str).alt # 0 THEN Some(data_str)
             ELSE data_consulta_receita(s, padroes, i + 1)

\* what interpretar_pdf_receita reads in the PDF: the text and the tables are
\* both empty (vazio), the values its searches find, the text of the bloco
\* and the dict processar_receita returns
ler_pdf_receita(pdf) ==
    LET s == juntar(pdf.texto)
        texto_lower == text_lower(pdf.texto)
        tem_debitos == \/ text_in(<<"c","o","n","s","t","a"," ","d","e'","b","i","t","o">>,
                          texto_lower)
                       \/ text_in(<<"p","o","s","s","u","i"," ","d","e'","b","i","t","o">>,
                               texto_lower)
                       \/ text_in(<<"d","e","v","a","d","o","r">>, texto_lower)
    IN  [vazio |-> s = <<>> /\ pdf.tabelas = <<>>,
         cnpj |-> primeiro_cnpj(s),
         requerente |-> requerente_receita(s),
         data |-> data_consulta_receita(s,
                      <<LitIS(<<"D","a","t","a"," ","d","a"," ","C","o","n","s","u","l","t",
                              "a">>) \o DoisPontosOuEspaco,
                        LitIS(<<"E","m","i","t","i","d","o"," ","e",
                                "m">>) \o DoisPontosOuEspaco>>, 1),
         bloco |-> <<"S","i","t","u","a","c,","a~","o"," ","f","i","s","c","a","l",":"," ">>
                       \o (IF tem_debitos THEN <<"C","O","M"," ","D","E'","B","I","T","O","S"," ",
                               "/"," ","P","E","N","D","E^","N","C","I","A","S">> ELSE <<"R","E",
                               "G","U","L","A","R">>)
                       \o <<".">>,
         dados_processados |-> processar_receita(pdf.texto, pdf.tabelas)]

\* interpretar_pdf_receita(caminho_pdf, resultado), lido what it reads in the
\* PDF.  processar_receita raises on none of the documents modelled, so the
\* handler's except branch, which writes bloco_receita_federal only, is not
\* taken.
interpretar_pdf_receita(lido, res) ==
    IF lido.vazio
    THEN [res EXCEPT !.bloco_receita_federal = Some(ErroLeituraPdf)]
    ELSE [res EXCEPT
             !.cnpj = se_vazio(@, IF lido.cnpj # NoneOpt THEN lido.cnpj ELSE @),
             !.requerente =
                 se_vazio(@, IF lido.requerente # NoneOpt THEN lido.requerente ELSE @),
             !.data_consulta_rf = se_vazio(@, IF lido.data # NoneOpt THEN lido.data ELSE @),
             !.bloco_receita_federal = Some(lido.bloco),
             !.receita_federal = Dict(lido.dados_processados)]

\* ---- FGTS ----
\* resultado.fgts as interpretar_pdf_fgts creates it.  Left out: the fields
\* that never change (metadados.tipo_documento, empregador.tipo_identificacao,
\* resumo.valor_total_estimado) and metadados.data_processamento, the day of
\* the call.
FgtsInicial(nome) ==
    [metadados |-> [arquivo_origem |-> nome],
     empregador |-> [identificacao |-> <<>>, razao_social |-> <<>>,
                     endereco_completo |-> <<>>],
     crf_detalhes |-> [numero_certificacao |-> <<>>, data_emissao |-> <<>>,
                       validade_inicio |-> <<>>, validade_fim |-> <<>>, uf_emissao |-> <<>>,
                       situacao_atual |-> None],
     pendencias_financeiras |-> [possui_debitos |-> FALSE,
                                 resumo |-> [qtd_competencias |-> 0],
                                 lista_debitos |-> <<>>],
     mensagens_sistema |-> EmptyDict]

\* ErroSemTexto: "PDF sem texto extrai'vel."
ErroSemTexto ==
    <<"P","D","F"," ","s","e","m"," ","t","e","x","t","o"," ","e","x","t","r","a","i'","v","e",
      "l",".">>

\* the name after "Raza~o Social", up to "Enderec,o", "Inscric,a~o" or "CNPJ"
razao_social_fgts(s) ==
    LET nome == <<Lazy(NotCh({}, 1, -1))>>
        fim == Lookahead(<<LitI(<<"E","n","d","e","r","e","c,","o">>), LitI(<<"I","n","s","c","r",
                "i","c,">>) \o ATil \o LitI(<<"o">>),
                           LitI(<<"C","N","P","J">>)>>, FALSE)
        m == re_search(<<RxRazaoSocial \o nome \o <<fim>> >>, s)
    IN  IF m.alt # 0 THEN Some(limpa(grupo_apos(s, m, RxRazaoSocial, nome))) ELSE NoneOpt

\* Enderec,o[:\s]+
RxEndereco == LitI(<<"E","n","d","e","r","e","c,","o">>) \o DoisPontosOuEspaco

\* the address: what follows "Enderec,o", "LOT", "RUA" or "AV." up to
\* "A Caixa", "O presente" or "Validade"
endereco_fgts(s) ==
    LET espacos == <<Ch(Whitespace, 1, -1)>>
        fim == <<Lookahead(<<LitIS(<<"A"," ","C","a","i","x","a">>), LitIS(<<"O"," ","p","r","e",
                "s","e","n","t","e">>), LitI(<<"V","a","l","i","d","a","d","e">>)>>,
                           FALSE)>>
        corpo == <<Lazy(NotCh({}, 1, -1))>>
        inicios == <<RxEndereco, LitI(<<"L","O","T">>) \o espacos, LitI(<<"R","U",
                "A">>) \o espacos,
                     LitI(<<"A","V",".">>) \o espacos>>
        m == re_search([i \in 1..Len(inicios) |-> inicios[i] \o corpo \o fim], s)
    IN  IF m.alt # 0
        THEN Some(limpa(re_sub_vazio(<<RxEndereco>>, grupo_apos(s, m, inicios[m.alt], corpo))))
        ELSE NoneOpt

\* /\s*([A-Z]{2})\s*/ in the address
uf_do_endereco(endereco) ==
    LET brancos == <<Ch(Whitespace, 0, -1)>>
        antes == Lit(<<"/">>) \o brancos
        uf == <<Ch(Range(SubSeq(UpperChars, 1, 26)), 2, 2)>>
        m == re_search(<<antes \o uf \o brancos \o Lit(<<"/">>)>>, endereco)
    IN  IF m.alt # 0 THEN Some(grupo_apos(endereco, m, antes, uf)) ELSE NoneOpt

\* the dates of "Validade: <inicio> a <fim>" or, failing that, of
\* "va'lida ate' <fim>": [inicio, fim], each Some or NoneOpt
validade_fgts(s) ==
    LET p1 == LitI(<<"V","a","l","i","d","a","d","e">>) \o DoisPontosOuEspaco
        meio == <<Ch(Whitespace, 1, -1)>> \o LitI(<<"a">>) \o <<Ch(Whitespace, 1, -1)>>
        m1 == re_search(<<p1 \o RxData \o meio \o RxData>>, s)
        p2 == LitIS(<<"v","a'","l","i","d","a"," ","a","t","e'">>) \o DoisPontosOuEspaco
        m2 == re_search(<<p2 \o RxData>>, s)
    IN  IF m1.alt # 0
        THEN [inicio |-> Some(grupo_apos(s, m1, p1, RxData)),
              fim |-> Some(grupo_apos(s, m1, p1 \o RxData \o meio, RxData))]
        ELSE IF m2.alt # 0
        THEN [inicio |-> NoneOpt, fim |-> Some(grupo_apos(s, m2, p2, RxData))]
        ELSE [inicio |-> NoneOpt, fim |-> NoneOpt]

\* Certificac,[a~a]o\s+N[u'u]mero[:\s]+(\d+)
numero_certificacao_fgts(s) ==
    LET p == LitI(<<"C","e","r","t","i","f","i","c","a","c,">>) \o ATil \o LitIS(<<"o"," ","N">>)
                 \o <<Ch({"u'", "U'", "u", "U"}, 1, 1)>> \o LitI(<<"m","e","r",
                         "o">>) \o DoisPontosOuEspaco
        numero == <<Ch(Digits, 1, -1)>>
        m == re_search(<<p \o numero>>, s)
    IN  IF m.alt # 0 THEN Some(grupo_apos(s, m, p, numero)) ELSE NoneOpt

\* Informac,a~o\s+obtida\s+em\s+(\d{2}/\d{2}/\d{4})
data_consulta_fgts(s) ==
    LET p == LitIS(<<"I","n","f","o","r","m","a","c,","a~","o"," ","o","b","t","i","d","a"," ",
            "e","m"," ">>)
        m == re_search(<<p \o RxData>>, s)
    IN  IF m.alt # 0 THEN Some(grupo_apos(s, m, p, RxData)) ELSE NoneOpt

\* lista_debitos with the debts i.. appended
RECURSIVE com_debitos_fgts(_, _, _)
com_debitos_fgts(lista, debitos, i) ==
    IF i > Len(debitos) THEN lista
    ELSE com_debitos_fgts(
             Append(lista, [competencia |-> debitos[i].competencia,
                            valor_estimado |-> debitos[i].valor,
                            descricao |-> <<"C","o","m","p","e","t","e^","n","c","i","a"," ","p",
                                    "e","n","d","e","n","t","e">>]),
             debitos, i + 1)

\* bloco_fgts: the parts of the text joined by " "
bloco_fgts(dados_processados, crf_detalhes) ==
    LET debitos == dados_processados.debitos
        n == Len(debitos)
        comps == [i \in 1..Min(5, n) |-> debitos[i].competencia]
        situacao ==
            IF dados_processados.situacao = "REGULAR"
            THEN <<<<"D","e"," ","a","c","o","r","d","o"," ","c","o","m"," ","o"," ","C","e","r",
                    "t","i","f","i","c","a","d","o"," ","d","e"," ","R","e","g","u","l","a","r",
                    "i","d","a","d","e"," ","d","o"," ","F","G","T","S",","," ","a"," ","e","m",
                    "p","r","e","s","a"," ">>
                   \o <<"e","n","c","o","n","t","r","a","-","s","e"," ","e","m"," ","s","i","t",
                           "u","a","c,","a~","o"," ","r","e","g","u","l","a","r"," ","p","e","r",
                           "a","n","t","e"," ","o"," ","F","u","n","d","o"," ","d","e"," ","G",
                           "a","r","a","n","t","i","a"," ">>
                   \o <<"d","o"," ","T","e","m","p","o"," ","d","e"," ","S","e","r","v","i","c,",
                           "o",".">>>>
                 \o (IF crf_detalhes.validade_fim # <<>>
                     THEN <<<<"V","a","l","i","d","a","d","e",":",
                             " ">> \o crf_detalhes.validade_fim \o <<".">> >>
                     ELSE <<>>)
            ELSE <<<<"F","o","r","a","m"," ","i","d","e","n","t","i","f","i","c","a","d","a","s",
                    " ","p","e","n","d","e^","n","c","i","a","s"," ","j","u","n","t","o"," ","a",
                    "o"," ","F","G","T","S","."," ">>
                   \o <<"S","i","t","u","a","c,","a~","o"," ","a","t","u","a","l",":"," ","I","r",
                           "r","e","g","u","l","a","r","."," ","C","o","m","p","e","t","e^","n",
                           "c","i","a","s"," ","p","e","n","d","e","n","t","e","s",":"," ">>
                   \o str_de_int(n) \o <<".">> >>
                 \o (IF n > 0
                     THEN <<<<"C","o","m","p","e","t","e^","n","c","i","a","s",":",
                             " ">> \o join(<<",", " ">>, comps)
                            \o (IF n > 5 THEN <<".",".",".">> ELSE <<>>)>>
                     ELSE <<>>)
        certificacao ==
            IF crf_detalhes.numero_certificacao # <<>>
            THEN <<<<"C","e","r","t","i","f","i","c","a","c,","a~","o",":",
                    " ">> \o crf_detalhes.numero_certificacao \o <<".">> >>
            ELSE <<>>
    IN  join(<<" ">>, situacao \o certificacao)

\* what interpretar_pdf_fgts reads in the PDF: its path, the text is empty
\* (vazio), the values its searches find and, for every order in which
\* processar_fgts can iterate its set, the dict processar_fgts returns
ler_pdf_fgts(pdf) ==
    LET s == juntar(pdf.texto)
    IN  [nome |-> pdf.nome,
         vazio |-> s = <<>>,
         cnpj |-> primeiro_cnpj(s),
         razao_social |-> razao_social_fgts(s),
         endereco |-> endereco_fgts(s),
         validade |-> validade_fgts(s),
         numero |-> numero_certificacao_fgts(s),
         data_consulta |-> data_consulta_fgts(s),
         dados_processados |->
             [ordem \in Ordens(competencias_encontradas(pdf.texto)) |->
                 processar_fgts(pdf.texto, ordem)]]

\* interpretar_pdf_fgts(caminho_pdf, resultado), lido what it reads in the
\* PDF and ordem the order in which processar_fgts iterates its set.  Nothing
\* in the handler raises on a text, so its except branch is not taken.
interpretar_pdf_fgts(lido, res, ordem) ==
    LET f0 == IF res.fgts = EmptyDict THEN FgtsInicial(lido.nome) ELSE res.fgts[1]
        dados_processados == lido.dados_processados[ordem]
        empregador ==
            [identificacao |->
                 IF lido.cnpj # NoneOpt THEN lido.cnpj[1] ELSE f0.empregador.identificacao,
             razao_social |->
                 IF lido.razao_social # NoneOpt THEN lido.razao_social[1]
                 ELSE f0.empregador.razao_social,
             endereco_completo |->
                 IF lido.endereco # NoneOpt THEN lido.endereco[1]
                 ELSE f0.empregador.endereco_completo]
        uf == IF empregador.endereco_completo # <<>>
              THEN uf_do_endereco(empregador.endereco_completo)
              ELSE NoneOpt
        crf_detalhes ==
            [numero_certificacao |->
                 IF lido.numero # NoneOpt THEN lido.numero[1]
                 ELSE f0.crf_detalhes.numero_certificacao,
             data_emissao |->
                 IF lido.data_consulta # NoneOpt THEN lido.data_consulta[1]
                 ELSE f0.crf_detalhes.data_emissao,
             validade_inicio |->
                 IF lido.validade.inicio # NoneOpt THEN lido.validade.inicio[1]
                 ELSE f0.crf_detalhes.validade_inicio,
             validade_fim |->
                 IF lido.validade.fim # NoneOpt THEN lido.validade.fim[1]
                 ELSE f0.crf_detalhes.validade_fim,
             uf_emissao |-> IF uf # NoneOpt THEN uf[1] ELSE f0.crf_detalhes.uf_emissao,
             situacao_atual |-> dados_processados.situacao]
        pendencias ==
            IF dados_processados.situacao = "REGULAR"
            THEN [f0.pendencias_financeiras EXCEPT !.possui_debitos = FALSE,
                                                   !.lista_debitos = <<>>]
            ELSE [possui_debitos |-> Len(dados_processados.debitos) > 0,
                  resumo |-> [qtd_competencias |-> Len(dados_processados.debitos)],
                  lista_debitos |->
                      com_debitos_fgts(f0.pendencias_financeiras.lista_debitos,
                                       dados_processados.debitos, 1)]
        mensagens ==
            IF truthy_str(dados_processados.observacao)
            THEN dict_set(f0.mensagens_sistema, "observacao", dados_processados.observacao[1])
            ELSE f0.mensagens_sistema
    IN  IF lido.vazio
        THEN [res EXCEPT !.fgts =
                 Dict([f0 EXCEPT !.mensagens_sistema = dict_set(@, "erro", ErroSemTexto)])]
        ELSE [res EXCEPT
                 !.fgts = Dict([metadados |-> f0.metadados, empregador |-> empregador,
                                crf_detalhes |-> crf_detalhes,
                                pendencias_financeiras |-> pendencias,
                                mensagens_sistema |-> mensagens]),
                 !.cnpj = se_vazio(@, IF lido.cnpj # NoneOpt THEN lido.cnpj ELSE @),
                 !.requerente =
                     se_vazio(@, IF lido.razao_social # NoneOpt THEN lido.razao_social ELSE @),
                 !.data_consulta_fgts =
                     se_vazio(@, IF lido.data_consulta # NoneOpt THEN lido.data_consulta ELSE @),
                 !.bloco_fgts = Some(bloco_fgts(dados_processados, crf_detalhes))]

\* ---- SEFAZ ----
\* resultado.sefaz_estadual as interpretar_pdf_sefaz creates it
SefazInicial ==
    [cabecalho_documento |-> EmptyDict,
     contribuinte |-> EmptyDict,
     pendencias_identificadas |->
         [ipva |-> <<>>, icms_fronteira_antecipado |-> <<>>, icms_competencias_aberto |-> <<>>,
          debitos_fiscais_autuacoes |-> <<>>, divida_ativa_estadual |-> <<>>],
     resumo_financeiro |-> EmptyDict,
     mensagens_sistema |-> EmptyDict]

\* ErroSemTextoSefaz: "Na~o foi possi'vel extrair texto do PDF."
ErroSemTextoSefaz ==
    <<"N","a~","o"," ","f","o","i"," ","p","o","s","s","i'","v","e","l"," ","e","x","t","r","a",
      "i","r"," ","t","e","x","t","o"," ","d","o"," ","P","D","F",".">>

\* str(e) of the TypeError re.finditer raises in processar_sefaz and of the
\* ValueError the unpacking in _extrair_data raises
\* MensagemTypeError: "expected string or bytes-like object, got 'RegexFlag'"
MensagemTypeError ==
    <<"e","x","p","e","c","t","e","d"," ","s","t","r","i","n","g"," ","o","r"," ","b","y","t","e",
      "s","-","l","i","k","e"," ","o","b","j","e","c","t",","," ","g","o","t"," ","'","R","e","g",
      "e","x","F","l","a","g","'">>

\* MensagemValueError: "too many values to unpack (expected 3)"
MensagemValueError ==
    <<"t","o","o"," ","m","a","n","y"," ","v","a","l","u","e","s"," ","t","o"," ","u","n","p","a",
      "c","k"," ","(","e","x","p","e","c","t","e","d"," ","3",")">>

\* [\d\.\/\-\s]+
RxNumeroCnpj == <<Ch(Digits \cup {".", "/", "-"} \cup Whitespace, 1, -1)>>

\* the patterns of sefaz._extrair_cnpj
PadroesCnpjSefaz ==
    <<LitI(<<"C","N","P","J">>) \o DoisPontosOuEspaco \o RxNumeroCnpj,
      LitI(<<"I","n","s","c","r","i",
              "c,">>) \o ATil \o LitI(<<"o">>) \o DoisPontosOuEspaco \o RxNumeroCnpj,
      RxCnpj>>

\* the digits c as a formatted CNPJ
cnpj_formatado(c) ==
    SubSeq(c, 1, 2) \o <<".">> \o SubSeq(c, 3, 5) \o <<".">> \o SubSeq(c, 6, 8)
        \o <<"/">> \o SubSeq(c, 9, 12) \o <<"-">> \o SubSeq(c, 13, 14)

\* the digits of group 1 of the match m of pattern i
digitos_do_cnpj(s, m, i) ==
    so_chars(IF i = 3 THEN SubSeq(s, m.pos[1], fim_de(m) - 1)
             ELSE grupo(s, m, Len(PadroesCnpjSefaz[i]), Len(PadroesCnpjSefaz[i]) + 1),
             Digits)

\* sefaz._extrair_cnpj(texto): the patterns i.. tried in order, the first
\* whose match holds 14 digits giving the formatted CNPJ
RECURSIVE extrair_cnpj_sefaz(_, _)
extrair_cnpj_sefaz(s, i) ==
    IF i > 3 THEN NoneOpt
    ELSE seja(re_search(<<PadroesCnpjSefaz[i]>>, s), LAMBDA m :
             IF m.alt # 0 /\ Len(digitos_do_cnpj(s, m, i)) = 14
             THEN Some(cnpj_formatado(digitos_do_cnpj(s, m, i)))
             ELSE extrair_cnpj_sefaz(s, i + 1))

\* the text after the second "/" of a str that starts with DD/MM/
depois_da_segunda_barra(data_str) == SubSeq(data_str, 7, Len(data_str))

\* sefaz._extrair_data(texto, padroes), the patterns i.. tried in order:
\* [raised, data], data the date as Some or NoneOpt; the call raises when a
\* date DD/MM/AA is followed by one more "/"
RECURSIVE extrair_data_sefaz(_, _, _)
extrair_data_sefaz(s, padroes, i) ==
    IF i > Len(padroes) THEN [raised |-> FALSE, data |-> NoneOpt]
    ELSE LET m == re_search(<<padroes[i] \o RxDigitosBarras>>, s)
             data_str == grupo_apos(s, m, padroes[i], RxDigitosBarras)
             curta == <<Ch(Digits, 2, 2)>> \o Lit(<<"/">>) \o <<Ch(Digits, 2, 2)>> \o Lit(<<"/">>)
                          \o <<Ch(Digits, 2, 2)>>
         IN  IF m.alt = 0 THEN extrair_data_sefaz(s, padroes, i + 1)
             ELSE IF re_match(<<RxData>>, data_str).alt # 0
             THEN [raised |-> FALSE, data |-> Some(data_str)]
             ELSE IF re_match(<<curta>>, data_str).alt # 0
             THEN IF count(data_str, "/") # 2 THEN [raised |-> TRUE, data |-> NoneOpt]
                  ELSE [raised |-> FALSE,
                        data |-> Some(SubSeq(data_str, 1, 6) \o <<"2", "0">>
                                      \o depois_da_segunda_barra(data_str))]
             ELSE extrair_data_sefaz(s, padroes, i + 1)

\* padroes_data of interpretar_pdf_sefaz, each up to its group ([\d/]+)
PadroesDataSefaz ==
    <<LitIS(<<"D","a","t","a"," ","d","e"," ","E","m","i","s",
            "s">>) \o ATil \o LitI(<<"o">>) \o DoisPontosOuEspaco,
      LitIS(<<"D","a","t","a"," ","d","a"," ","C","o","n","s","u","l","t",
              "a">>) \o DoisPontosOuEspaco,
      LitIS(<<"E","m","i","t","i","d","o"," ","e","m">>) \o DoisPontosOuEspaco,
      LitIS(<<"V","a'","l","i","d","a"," ","a","t","e'">>) \o DoisPontosOuEspaco>>

\* (Va'lida\s+ate'|Validade)[:\s]+([\d/]+): group 2 as Some, or NoneOpt
validade_sefaz(s) ==
    LET inicios == <<LitIS(<<"V","a'","l","i","d","a"," ","a","t","e'">>) \o DoisPontosOuEspaco,
                     LitI(<<"V","a","l","i","d","a","d","e">>) \o DoisPontosOuEspaco>>
        m == re_search(<<inicios[1] \o RxDigitosBarras, inicios[2] \o RxDigitosBarras>>, s)
    IN  IF m.alt # 0 THEN Some(grupo_apos(s, m, inicios[m.alt], RxDigitosBarras)) ELSE NoneOpt

\* the entries appended to pendencias_identificadas for the items extracted
pendencias_ipva(itens) ==
    [i \in 1..Len(itens) |->
        [exercicio |-> IF itens[i].ano # 0 THEN str_de_int(itens[i].ano) ELSE <<>>,
         placa |-> <<>>, renavam |-> <<>>, valor_original |-> 0,
         valor_total |-> itens[i].valor, status |-> itens[i].situacao]]

\* item.get('competencia') and item.get('valor', 0.0) on the items of
\* _extrair_fronteiras, which hold dae, vencimento and valor_original
pendencias_fronteira(itens) ==
    [i \in 1..Len(itens) |->
        [periodo_referencia |-> NoneOpt, codigo_receita |-> <<>>,
         descricao |-> <<"I","C","M","S"," ","A","n","t","e","c","i","p","a","d","o","/","F","r",
                 "o","n","t","e","i","r","a">>, data_vencimento |-> <<>>,
         valor_total |-> 0]]

pendencias_debitos_fiscais(itens) ==
    [i \in 1..Len(itens) |->
        [numero_processo |-> itens[i].processo, natureza_debito |-> itens[i].situacao,
         periodo |-> <<>>, fase_processual |-> <<"C","o","b","r","a","n","c,","a"," ","A","d","m",
                 "i","n","i","s","t","r","a","t","i","v","a">>,
         valor_consolidado |-> itens[i].saldo]]

\* sum(d.get(campo, 0.0) for d in lista)
RECURSIVE soma_campo(_, _)
soma_campo(lista, campo) ==
    IF lista = <<>> THEN 0
    ELSE (IF campo \in DOMAIN lista[1] THEN lista[1][campo] ELSE 0)
         + soma_campo(Tail(lista), campo)

\* "Calculo de Totais"
resumo_financeiro_sefaz(resumo, pendencias) ==
    LET total_ipva == soma_campo(pendencias.ipva, "valor_total")
        total_icms_fronteira == soma_campo(pendencias.icms_fronteira_antecipado, "valor_total")
        total_icms_normal == soma_campo(pendencias.icms_competencias_aberto, "valor_estimado")
        total_divida_ativa ==
            soma_campo(pendencias.debitos_fiscais_autuacoes, "valor_consolidado")
        r1 == dict_set(resumo, "total_ipva", total_ipva)
        r2 == dict_set(r1, "total_icms_fronteira", total_icms_fronteira)
        r3 == dict_set(r2, "total_icms_normal", total_icms_normal)
        r4 == dict_set(r3, "total_divida_ativa", total_divida_ativa)
    IN  dict_set(r4, "total_geral_consolidado",
                 total_ipva + total_icms_fronteira + total_icms_normal + total_divida_ativa)

\* what interpretar_pdf_sefaz reads in the PDF: the text and the tables are
\* both empty (vazio), the values its searches find and the outcome of
\* processar_sefaz
ler_pdf_sefaz(pdf) ==
    LET s == juntar(pdf.texto)
    IN  [vazio |-> s = <<>> /\ pdf.tabelas = <<>>,
         cnpj |-> extrair_cnpj_sefaz(s, 1),
         data_encontrada |-> extrair_data_sefaz(s, PadroesDataSefaz, 1),
         validade |-> validade_sefaz(s),
         dados_processados |-> processar_sefaz(pdf.texto, pdf.tabelas)]

\* interpretar_pdf_sefaz(caminho_pdf, resultado), lido what it reads in the
\* PDF: an exception of _extrair_data or of processar_sefaz ends the handler
\* in its except branch, what was written before it kept
interpretar_pdf_sefaz(lido, res) ==
    LET e0 == IF res.sefaz_estadual = EmptyDict THEN SefazInicial ELSE res.sefaz_estadual[1]
        com_erro(e, msg) ==
            [e EXCEPT !.mensagens_sistema = dict_set(@, "erro_parser", msg)]
        cnpj == se_vazio(res.cnpj, lido.cnpj)
        e1 == [e0 EXCEPT !.contribuinte = dict_set(@, "cnpj_cpf", cnpj)]
        r1 == [res EXCEPT !.cnpj = cnpj]
        data_encontrada == lido.data_encontrada.data
        r2 == [r1 EXCEPT !.data_consulta_sefaz = se_vazio(@, data_encontrada)]
        cab1 == dict_set(e1.cabecalho_documento, "data_emissao", data_encontrada)
        cab2 == IF lido.validade # NoneOpt THEN dict_set(cab1, "validade", lido.validade[1])
                ELSE cab1
        e2 == [e1 EXCEPT !.cabecalho_documento = cab2]
        dados_processados ==
            [k \in (DOMAIN lido.dados_processados) \ {"raised"} |-> lido.dados_processados[k]]
        detalhes == dados_processados.detalhes
        cab4 == dict_set(dict_set(cab2, "situacao_geral", dados_processados.situacao),
                         "motivos", dados_processados.motivos)
        pendencias ==
            [e0.pendencias_identificadas EXCEPT
                !.ipva = @ \o pendencias_ipva(detalhes.ipva),
                !.icms_fronteira_antecipado = @ \o pendencias_fronteira(detalhes.fronteira.itens),
                !.debitos_fiscais_autuacoes =
                    @ \o pendencias_debitos_fiscais(detalhes.debitos_fiscais.itens)]
        mensagens ==
            IF truthy_str(dados_processados.observacao)
            THEN dict_set(e0.mensagens_sistema, "observacao", dados_processados.observacao[1])
            ELSE e0.mensagens_sistema
        e3 == [e2 EXCEPT
                  !.cabecalho_documento = cab4,
                  !.pendencias_identificadas = pendencias,
                  !.resumo_financeiro = resumo_financeiro_sefaz(@, pendencias),
                  !.mensagens_sistema = mensagens]
        e4 == dict_set(dict_set(e3, "dados_processados", dados_processados),
                       "tipo_documento", dados_processados.tipo_documento)
    IN  IF lido.vazio
        THEN [res EXCEPT !.sefaz_estadual =
                 Dict([e0 EXCEPT !.mensagens_sistema = dict_set(@, "erro", ErroSemTextoSefaz)])]
        ELSE IF lido.data_encontrada.raised
        THEN [r1 EXCEPT !.sefaz_estadual = Dict(com_erro(e1, MensagemValueError))]
        ELSE IF lido.dados_processados.raised
        THEN [r2 EXCEPT !.sefaz_estadual = Dict(com_erro(e2, MensagemTypeError))]
        ELSE [r2 EXCEPT !.sefaz_estadual = Dict(e4)]

\* ---- the documents of a session ----
TextoRF1 == <<
    \* 1: "MINISTE'RIO DA FAZENDA - RECEITA FEDERAL"
    <<"M","I","N","I","S","T","E'","R","I","O"," ","D","A"," ","F","A","Z","E","N","D","A"," ",
      "-"," ","R","E","C","E","I","T","A"," ","F","E","D","E","R","A","L">>,
    \* 2: "Raza~o Social: ACME LTDA"
    <<"R","a","z","a~","o"," ","S","o","c","i","a","l",":"," ","A","C","M","E"," ","L","T","D","A">>,
    \* 3: "CNPJ: 12.345.678/0001-90"
    <<"C","N","P","J",":"," ","1","2",".","3","4","5",".","6","7","8","/","0","0","0","1","-","9",
      "0">>,
    \* 4: "Data da Consulta: 10/01/2025"
    <<"D","a","t","a"," ","d","a"," ","C","o","n","s","u","l","t","a",":"," ","1","0","/","0","1",
      "/","2","0","2","5">>,
    \* 5: "1138-01 CP-PATRONAL 01/2024 1.234,56 DEVEDOR"
    <<"1","1","3","8","-","0","1"," ","C","P","-","P","A","T","R","O","N","A","L"," ","0","1","/",
      "2","0","2","4"," ","1",".","2","3","4",",","5","6"," ","D","E","V","E","D","O","R">>
  >>

TextoRF2 == <<
    \* 1: "Situac,a~o Fiscal - e-CAC"
    <<"S","i","t","u","a","c,","a~","o"," ","F","i","s","c","a","l"," ","-"," ","e","-","C","A",
      "C">>,
    \* 2: "Raza~o Social: BETA SA CNPJ 98.765.432/0001-10"
    <<"R","a","z","a~","o"," ","S","o","c","i","a","l",":"," ","B","E","T","A"," ","S","A"," ",
      "C","N","P","J"," ","9","8",".","7","6","5",".","4","3","2","/","0","0","0","1","-","1","0">>,
    \* 3: "Emitido em: 05/03/2025"
    <<"E","m","i","t","i","d","o"," ","e","m",":"," ","0","5","/","0","3","/","2","0","2","5">>,
    \* 4: "Consta de'bito em aberto"
    <<"C","o","n","s","t","a"," ","d","e'","b","i","t","o"," ","e","m"," ","a","b","e","r","t","o">>
  >>

TextoFG1 == <<
    \* 1: "Certificado de Regularidade do FGTS - CRF"
    <<"C","e","r","t","i","f","i","c","a","d","o"," ","d","e"," ","R","e","g","u","l","a","r","i",
      "d","a","d","e"," ","d","o"," ","F","G","T","S"," ","-"," ","C","R","F">>,
    \* 2: "Inscric,a~o: 12.345.678/0001-90"
    <<"I","n","s","c","r","i","c,","a~","o",":"," ","1","2",".","3","4","5",".","6","7","8","/",
      "0","0","0","1","-","9","0">>,
    \* 3: "Raza~o Social: ACME LTDA"
    <<"R","a","z","a~","o"," ","S","o","c","i","a","l",":"," ","A","C","M","E"," ","L","T","D","A">>,
    \* 4: "Enderec,o: RUA A 10 / RECIFE / PE / 50000-000"
    <<"E","n","d","e","r","e","c,","o",":"," ","R","U","A"," ","A"," ","1","0"," ","/"," ","R",
      "E","C","I","F","E"," ","/"," ","P","E"," ","/"," ","5","0","0","0","0","-","0","0","0">>,
    \* 5: "A Caixa certifica que a empresa encontra-se em situac,a~o regular."
    <<"A"," ","C","a","i","x","a"," ","c","e","r","t","i","f","i","c","a"," ","q","u","e"," ","a",
      " ","e","m","p","r","e","s","a"," ","e","n","c","o","n","t","r","a","-","s","e"," ","e","m",
      " ","s","i","t","u","a","c,","a~","o"," ","r","e","g","u","l","a","r",".">>,
    \* 6: "Validade: 01/01/2025 a 30/01/2025"
    <<"V","a","l","i","d","a","d","e",":"," ","0","1","/","0","1","/","2","0","2","5"," ","a"," ",
      "3","0","/","0","1","/","2","0","2","5">>,
    \* 7: "Certificac,a~o Nu'mero: 2025010101"
    <<"C","e","r","t","i","f","i","c","a","c,","a~","o"," ","N","u'","m","e","r","o",":"," ","2",
      "0","2","5","0","1","0","1","0","1">>,
    \* 8: "Informac,a~o obtida em 02/01/2025"
    <<"I","n","f","o","r","m","a","c,","a~","o"," ","o","b","t","i","d","a"," ","e","m"," ","0",
      "2","/","0","1","/","2","0","2","5">>
  >>

TextoFG2 == <<
    \* 1: "FUNDO DE GARANTIA - FGTS"
    <<"F","U","N","D","O"," ","D","E"," ","G","A","R","A","N","T","I","A"," ","-"," ","F","G","T",
      "S">>,
    \* 2: "Raza~o Social: BETA SA"
    <<"R","a","z","a~","o"," ","S","o","c","i","a","l",":"," ","B","E","T","A"," ","S","A">>,
    \* 3: "CNPJ: 98.765.432/0001-10"
    <<"C","N","P","J",":"," ","9","8",".","7","6","5",".","4","3","2","/","0","0","0","1","-","1",
      "0">>,
    \* 4: "Informac,a~o obtida em 03/02/2025"
    <<"I","n","f","o","r","m","a","c,","a~","o"," ","o","b","t","i","d","a"," ","e","m"," ","0",
      "3","/","0","2","/","2","0","2","5">>,
    \* 5: "Compete^ncias em atraso: 01/2024 02/2024"
    <<"C","o","m","p","e","t","e^","n","c","i","a","s"," ","e","m"," ","a","t","r","a","s","o",
      ":"," ","0","1","/","2","0","2","4"," ","0","2","/","2","0","2","4">>
  >>

TextoSF1 == <<
    \* 1: "CERTIDA~O DE REGULARIDADE FISCAL"
    <<"C","E","R","T","I","D","A~","O"," ","D","E"," ","R","E","G","U","L","A","R","I","D","A",
      "D","E"," ","F","I","S","C","A","L">>,
    \* 2: "CNPJ: 12.345.678/0001-90"
    <<"C","N","P","J",":"," ","1","2",".","3","4","5",".","6","7","8","/","0","0","0","1","-","9",
      "0">>,
    \* 3: "Situac,a~o regular"
    <<"S","i","t","u","a","c,","a~","o"," ","r","e","g","u","l","a","r">>,
    \* 4: "Data de Emissa~o: 15/01/2025"
    <<"D","a","t","a"," ","d","e"," ","E","m","i","s","s","a~","o",":"," ","1","5","/","0","1",
      "/","2","0","2","5">>,
    \* 5: "Va'lida ate': 15/04/2025"
    <<"V","a'","l","i","d","a"," ","a","t","e'",":"," ","1","5","/","0","4","/","2","0","2","5">>
  >>

TextoSF2 == <<
    \* 1: "Inscric,a~o: 98765432000110"
    <<"I","n","s","c","r","i","c,","a~","o",":"," ","9","8","7","6","5","4","3","2","0","0","0",
      "1","1","0">>,
    \* 2: "Emitido em 20/02/25"
    <<"E","m","i","t","i","d","o"," ","e","m"," ","2","0","/","0","2","/","2","5">>,
    \* 3: "IPVA 2023 R$ 1.234,56"
    <<"I","P","V","A"," ","2","0","2","3"," ","R","$"," ","1",".","2","3","4",",","5","6">>,
    \* 4: "DE'BITOS FISCAIS em atraso"
    <<"D","E'","B","I","T","O","S"," ","F","I","S","C","A","I","S"," ","e","m"," ","a","t","r",
      "a","s","o">>,
    \* 5: "2024.000010816644-80 ATIVO 36.491,20"
    <<"2","0","2","4",".","0","0","0","0","1","0","8","1","6","6","4","4","-","8","0"," ","A","T",
      "I","V","O"," ","3","6",".","4","9","1",",","2","0">>
  >>

TextoSF3 == <<
    \* 1: "LISTAGEM ICMS FRONTEIRA em atraso"
    <<"L","I","S","T","A","G","E","M"," ","I","C","M","S"," ","F","R","O","N","T","E","I","R","A",
      " ","e","m"," ","a","t","r","a","s","o">>,
    \* 2: "Data da Consulta: 07/03/2025"
    <<"D","a","t","a"," ","d","a"," ","C","o","n","s","u","l","t","a",":"," ","0","7","/","0","3",
      "/","2","0","2","5">>
  >>

TextoOutro == <<
    \* 1: "Documento gene'rico sem palavra-chave"
    <<"D","o","c","u","m","e","n","t","o"," ","g","e","n","e'","r","i","c","o"," ","s","e","m",
      " ","p","a","l","a","v","r","a","-","c","h","a","v","e">>
  >>

TextoTabela == <<
    \* 1: "RECEITA FEDERAL"
    <<"R","E","C","E","I","T","A"," ","F","E","D","E","R","A","L">>
  >>

\* the tables of the PDFs that hold a table of debts and a title only
TabelasDosPDFs ==
    << <<CabecalhoSaldos, LinhasTabelaRF[3]>>,
       <<CabecalhoSaldos, LinhasTabelaRF[5]>>,
       <<CabecalhoSaldos, LinhasTabelaRF[6]>>,
       <<CabecalhoSaldos, LinhasTabelaRF[1], LinhasTabelaRF[2], LinhasTabelaRF[3],
         LinhasTabelaRF[6]>>,
       <<CabecalhoSimples, LinhasTabelaRF[1]>>,
       <<CabecalhoSaldos, LinhasTabelaRF[2], LinhasTabelaRF[8]>>,
       <<CabecalhoSaldos, LinhasTabelaRF[8]>> >>

NomesDosPDFs == <<"t1.pdf", "t2.pdf", "t3.pdf", "t4.pdf", "t5.pdf", "t6.pdf", "t7.pdf">>

\* the texts of two Receita reports with a SISPAR section: a social-security
\* plan next to a contribution, and a plan of another regime
TextoSispar1 ==
    TextoTabela \o <<LinhasParcelamentos[1], LinhasParcelamentos[3], LinhasParcelamentos[9]>>

TextoSispar2 == TextoTabela \o <<LinhasParcelamentos[1], LinhasParcelamentos[2]>>

\* two Receita reports that name a Parcelamento Unificado: one with a
\* social-security debt, one with no debt
TextoUnificado1 == TextoRF1 \o <<<<"P","a","r","c","e","l","a","m","e","n","t","o"," ","U","n",
        "i","f","i","c","a","d","o"," ","-"," ","s","i","t","u","a","c,","a~","o"," ","r","e","g",
        "u","l","a","r">>>>

TextoUnificado2 == <<TextoRF1[1], <<"P","a","r","c","e","l","a","m","e","n","t","o"," ","U","n",
        "i","f","i","c","a","d","o"," ","e","m"," ","a","t","r","a","s","o">>>>

\* the PDFs: two Receita reports, a regular and an irregular FGTS certificate,
\* a SEFAZ certificate, two SEFAZ statements, a PDF with no text and no
\* table, a PDF of no agency, the Receita PDFs that hold one table each, and
\* the two Receita reports with a SISPAR section, and the two that name a
\* Parcelamento Unificado
PDFs ==
    <<[nome |-> "rf1.pdf", texto |-> TextoRF1,
       tabelas |-> <<<<CabecalhoSaldos, LinhasTabelaRF[1]>>>>],
      [nome |-> "rf2.pdf", texto |-> TextoRF2,
       tabelas |-> <<<<CabecalhoSaldos, LinhasTabelaRF[2], LinhasTabelaRF[4]>>>>],
      [nome |-> "fg1.pdf", texto |-> TextoFG1, tabelas |-> <<>>],
      [nome |-> "fg2.pdf", texto |-> TextoFG2, tabelas |-> <<>>],
      [nome |-> "sf1.pdf", texto |-> TextoSF1, tabelas |-> <<>>],
      [nome |-> "sf2.pdf", texto |-> TextoSF2, tabelas |-> <<TabelaDebitos>>],
      [nome |-> "sf3.pdf", texto |-> TextoSF3, tabelas |-> <<>>],
      [nome |-> "vazio.pdf", texto |-> <<>>, tabelas |-> <<>>],
      [nome |-> "outro.pdf", texto |-> TextoOutro, tabelas |-> <<>>]>>
    \o [i \in 1..Len(TabelasDosPDFs) |->
            [nome |-> NomesDosPDFs[i], texto |-> TextoTabela,
             tabelas |-> <<TabelasDosPDFs[i]>>]]
    \o <<[nome |-> "sp1.pdf", texto |-> TextoSispar1, tabelas |-> <<>>],
          [nome |-> "sp2.pdf", texto |-> TextoSispar2, tabelas |-> <<>>],
          [nome |-> "pu1.pdf", texto |-> TextoUnificado1, tabelas |-> <<>>],
          [nome |-> "pu2.pdf", texto |-> TextoUnificado2, tabelas |-> <<>>]>>

\* the two PDFs that name a Parcelamento Unificado
PDFsUnificado == {Len(PDFs) - 1, Len(PDFs)}

\* the files of the reports on a Parcelamento Unificado: the file that is no
\* PDF, the two Receita reports, the irregular FGTS certificate, the SEFAZ
\* certificate, the PDF of no agency and the two that name the plan
PDFsComUnificado == {0, 1, 2, 4, 5, 9} \cup PDFsUnificado

\* the PDFs a session hands to its parsers
PDFsSessao == 1..8

\* what each parser reads in each of the PDFs handed to it
LidoReceita == [p \in 1..Len(PDFs) |-> ler_pdf_receita(PDFs[p])]

\* the PDFs handed to the FGTS parser: the two certificates and the empty PDF
PDFsFgts == {3, 4, 8}

LidoFgts == [p \in PDFsFgts |-> ler_pdf_fgts(PDFs[p])]

LidoSefaz == [p \in PDFsSessao |-> ler_pdf_sefaz(PDFs[p])]

MaxChamadas == 2

\* ------------------------------------------------------------------------
\* The reviewer's form (app.py)
\* ------------------------------------------------------------------------
\* [c.strip() for c in valor.split('\n') if c.strip()]
competencias_do_formulario(valor) ==
    seja(split_linhas(valor), LAMBDA cs :
        seja(SelectSeq(cs, strip_nao_vazio), LAMBDA ficam :
            [i \in 1..Len(ficam) |-> strip(ficam[i])]))

\* ObservacaoConferido: "Informac,o~es preenchidas manualmente pelo usua'rio."
ObservacaoConferido ==
    <<"I","n","f","o","r","m","a","c,","o~","e","s"," ","p","r","e","e","n","c","h","i","d","a",
      "s"," ","m","a","n","u","a","l","m","e","n","t","e"," ","p","e","l","o"," ","u","s","u",
      "a'","r","i","o",".">>

\* the parcelamento after the keys of st.session_state that exist have been
\* written to it; a key that does not exist is NoneOpt in ss
parcelamento_ajustado(parc, ss) ==
    [parc EXCEPT
        !.quantidade_parcelas = IF ss.qtd # NoneOpt THEN ss.qtd ELSE @,
        !.valor_total_parcelado = IF ss.valor_total # NoneOpt THEN ss.valor_total ELSE @,
        !.valor_parcela = IF ss.valor_parcela # NoneOpt THEN ss.valor_parcela ELSE @,
        !.competencias = IF ss.competencias # NoneOpt
                         THEN competencias_do_formulario(ss.competencias[1]) ELSE @,
        !.conferido_pelo_usuario = IF ss.conferido # NoneOpt THEN ss.conferido[1] ELSE @,
        !.necessita_consulta_manual_pgfn = IF ss.conferido = Some(TRUE) THEN FALSE ELSE @,
        !.observacao = IF ss.conferido = Some(TRUE) THEN Some(ObservacaoConferido) ELSE @]

\* receita_federal_copy after the block that writes the data of SISPAR, ss
\* the keys of st.session_state of each parcelamento
receita_com_ajustes(receita, ss) ==
    IF receita.sispar.tem_sispar
    THEN [receita EXCEPT !.sispar.parcelamentos =
             [idx \in 1..Len(@) |-> parcelamento_ajustado(@[idx], ss[idx])]]
    ELSE receita

\* the values the reviewer can have typed for one parcelamento: the boxes of
\* the competencias and of the conference are filled in together
SessoesDoParcelamento ==
    {[qtd |-> qtd, valor_total |-> valor_total, valor_parcela |-> valor_parcela,
      competencias |-> IF conferido = NoneOpt THEN NoneOpt
                       ELSE Some(<<"0","1","/","2","0","2","4">> \o <<"\n", " ">> \o <<"0","2",
                               "/","2","0","2","4">>),
      conferido |-> conferido] :
        qtd \in {NoneOpt, Some(12)},
        valor_total \in {NoneOpt, Some(<<"R","$"," ","1",".","0","0","0",",","0","0">>)},
        valor_parcela \in {NoneOpt, Some(<<"1","0","0",",","0","0">>)},
        conferido \in {NoneOpt, Some(TRUE), Some(FALSE)}}

\* ------------------------------------------------------------------------
\* The facade (parsers/__init__.py)
\* ------------------------------------------------------------------------
\* A path argument is None or a path: whether something is there, whether it
\* is a regular file, and which PDF it holds (0: a file pdfplumber cannot open)
Ausente == [existe |-> FALSE, is_file |-> FALSE, pdf |-> 0]

Pasta == [existe |-> TRUE, is_file |-> FALSE, pdf |-> 0]

Corrompido == [existe |-> TRUE, is_file |-> TRUE, pdf |-> 0]

Arquivo(p) == [existe |-> TRUE, is_file |-> TRUE, pdf |-> p]

\* _validar_caminho(caminho)
validar_caminho(caminho) ==
    IF caminho = NoneOpt THEN FALSE
    ELSE caminho[1].existe /\ caminho[1].is_file

\* str(e) of the exception pdfplumber.open raises on a file it cannot open
\* MensagemErroAbertura: "No /Root object! - Is this really a PDF?"
MensagemErroAbertura ==
    <<"N","o"," ","/","R","o","o","t"," ","o","b","j","e","c","t","!"," ","-"," ","I","s"," ","t",
      "h","i","s"," ","r","e","a","l","l","y"," ","a"," ","P","D","F","?">>

\* interpretar_pdf_receita on a file pdfplumber cannot open: the except branch
erro_no_parser_receita(res) ==
    [res EXCEPT !.bloco_receita_federal = Some(<<"E","r","r","o"," ","n","o"," ","p","a","r","s",
            "e","r",":"," ">> \o MensagemErroAbertura)]

\* interpretar_pdf_fgts on a file pdfplumber cannot open: resultado.fgts is
\* created before the try, the except branch writes the message twice
erro_no_parser_fgts(res) ==
    LET f0 == IF res.fgts = EmptyDict THEN FgtsInicial("corrompido.pdf") ELSE res.fgts[1]
        erro_msg == <<"E","r","r","o"," ","a","o"," ","p","r","o","c","e","s","s","a","r"," ","F",
                "G","T","S",":"," ">> \o MensagemErroAbertura
    IN  [res EXCEPT
            !.fgts = Dict([f0 EXCEPT !.mensagens_sistema = dict_set(@, "erro_parser", erro_msg)]),
            !.bloco_fgts = Some(erro_msg)]

\* interpretar_pdf_sefaz on a file pdfplumber cannot open: resultado.sefaz_estadual
\* is created before the try, the except branch writes erro_parser
erro_no_parser_sefaz(res) ==
    LET e0 == IF res.sefaz_estadual = EmptyDict THEN SefazInicial ELSE res.sefaz_estadual[1]
    IN  [res EXCEPT !.sefaz_estadual =
            Dict([e0 EXCEPT !.mensagens_sistema =
                     dict_set(@, "erro_parser", MensagemErroAbertura)])]

\* the call a step of interpretar_todos makes
chamada(parser, caminho, ordem) == [parser |-> parser, pdf |-> caminho[1].pdf, ordem |-> ordem]

\* the steps of interpretar_todos: the parser runs when the path is valid.  t
\* is the accumulator and the calls made so far.  No parser lets an exception
\* out (each catches Exception around everything that can raise), so the
\* except branch of a step is not taken.
passo_receita(t, caminho) ==
    IF validar_caminho(caminho)
    THEN [resultado |->
              IF caminho[1].pdf = 0 THEN erro_no_parser_receita(t.resultado)
              ELSE interpretar_pdf_receita(LidoReceita[caminho[1].pdf], t.resultado),
          chamadas |-> Append(t.chamadas, chamada("receita_federal", caminho, <<>>))]
    ELSE t

passo_fgts(t, caminho, ordem) ==
    IF validar_caminho(caminho)
    THEN [resultado |->
              IF caminho[1].pdf = 0 THEN erro_no_parser_fgts(t.resultado)
              ELSE interpretar_pdf_fgts(LidoFgts[caminho[1].pdf], t.resultado, ordem),
          chamadas |-> Append(t.chamadas, chamada("fgts", caminho, ordem))]
    ELSE t

passo_sefaz(t, caminho) ==
    IF validar_caminho(caminho)
    THEN [resultado |->
              IF caminho[1].pdf = 0 THEN erro_no_parser_sefaz(t.resultado)
              ELSE interpretar_pdf_sefaz(LidoSefaz[caminho[1].pdf], t.resultado),
          chamadas |-> Append(t.chamadas, chamada("sefaz", caminho, <<>>))]
    ELSE t

\* the parser of the path read nothing: the file cannot be opened or has no text
sem_leitura(caminho) ==
    /\ validar_caminho(caminho)
    /\ (caminho[1].pdf = 0 \/ PDFs[caminho[1].pdf].texto = <<>>)

\* interpretar_todos giving up after a parser that read nothing
interpretar_todos_ate_falhar(receita_pdf, fgts_pdf, sefaz_pdf, ordem) ==
    seja(passo_receita([resultado |-> ResultadoParsers, chamadas |-> <<>>], receita_pdf),
         LAMBDA t1 :
             IF sem_leitura(receita_pdf) THEN t1
             ELSE seja(passo_fgts(t1, fgts_pdf, ordem),
                       LAMBDA t2 : IF sem_leitura(fgts_pdf) THEN t2
                                   ELSE passo_sefaz(t2, sefaz_pdf)))

\* interpretar_todos(receita_pdf, fgts_pdf, sefaz_pdf), ordem the order in
\* which processar_fgts iterates its set: the accumulator returned and the
\* parser calls made
interpretar_todos(receita_pdf, fgts_pdf, sefaz_pdf, ordem) ==
    passo_sefaz(
        passo_fgts(
            passo_receita([resultado |-> ResultadoParsers, chamadas |-> <<>>], receita_pdf),
            fgts_pdf, ordem),
        sefaz_pdf)

\* the path arguments a caller passes for the PDFs pdfs
CaminhosDe(pdfs) ==
    {NoneOpt, Some(Ausente), Some(Pasta), Some(Corrompido)} \cup {Some(Arquivo(p)) : p \in pdfs}

\* the orders in which processar_fgts can iterate its set on the path
OrdensDoCaminho(caminho) ==
    IF validar_caminho(caminho) /\ caminho[1].pdf # 0
    THEN DOMAIN LidoFgts[caminho[1].pdf].dados_processados
    ELSE {<<>>}

\* ------------------------------------------------------------------------
\* utils.py: formatar_moeda_br, and the inputs of the money functions
\* ------------------------------------------------------------------------
\* the digits of an integer in groups of three, "," between the groups: the
\* format specifier ","
RECURSIVE agrupa_milhares(_)
agrupa_milhares(digitos) ==
    IF Len(digitos) <= 3 THEN digitos
    ELSE agrupa_milhares(SubSeq(digitos, 1, Len(digitos) - 3))
         \o <<",">> \o SubSeq(digitos, Len(digitos) - 2, Len(digitos))

\* f"{valor:,.2f}" for an amount of two decimals, valor in centavos
formato_2f(valor) ==
    agrupa_milhares(str_de_int(valor \div 100))
    \o <<".">> \o str_de_int((valor % 100) \div 10) \o str_de_int(valor % 10)

\* formatar_moeda_br without the exchange of "," and "."
formatar_moeda_us(valor) ==
    IF valor = 0 THEN <<"R","$"," ","0",",","0","0">>
    ELSE <<"R","$"," ">> \o formato_2f(valor)

\* formatar_moeda_br(valor), valor in centavos
formatar_moeda_br(valor) ==
    IF valor = 0 THEN <<"R","$"," ","0",",","0","0">>
    ELSE <<"R","$"," ">>
         \o replace(replace(replace(formato_2f(valor), ",", <<"X">>),
                            ".", <<",">>),
                    "X", <<".">>)

\* the amounts formatted: MaxCentavos + 1 consecutive amounts from zero, from
\* 999,00, from 999.999,00 and from 1.234.567,00
MaxCentavos == 200

BasesMoeda == {0, 99900, 99999900, 123456700}

ValoresMoeda == {base + c : base \in BasesMoeda, c \in 0..MaxCentavos}

\* the characters of the texts handed to converter_valor_br_para_float: two
\* digits, the separators, a sign, the currency symbol and a space
CaracteresDeValor == {"1", "0", ".", ",", "-", "R", "$", " "}

MaxLenValor == 4

\* the examples of the docstring and other amounts of documents
ValoresDeExemplo ==
    {<<"1",".","0","0","0",",","0","0">>, <<"9","9",".","2","4","9",",","1","4">>, <<"R","$"," ",
            "1",".","0","0","0",",","0","0">>, <<"1",".","0","0","0">>, <<"1",".","0","0","0",".",
            "0","0","0">>, <<"1","2",".","3","4","5">>,
     <<"a","b","c">>, <<"1",",","2",",","3">>, <<"-","5",",","0","0">>, <<"R","$"," ","-","1",".",
             "2","3","4",",","5","6">>, <<"1",".","2","3","4",".","5","6","7",",","8","9">>}

TextosDeValor ==
    UNION {[1..n -> CaracteresDeValor] : n \in 0..MaxLenValor} \cup ValoresDeExemplo

\* ------------------------------------------------------------------------
\* the inputs of normalizar_competencia
\* ------------------------------------------------------------------------
\* what a competencia cell or token holds: a month and year, a year and
\* month, a year, and texts that are none of them
NucleosDeCompetencia ==
    {<<"0","1","/","2","0","2","4">>, <<"1","3","/","2","0","2","4">>, <<"2","0","2","4","-","0",
            "1">>, <<"2","0","2","4">>, <<"2","0","2","4","-","1">>, <<"1","/","2","0","2","4">>,
            <<"2","0","2">>,
     <<"0","1","-","2","0","2","4">>, <<"2","0","2","4","/","0","1">>, <<"0","1","2","0","2",
             "4">>, <<>>}

\* what precedes and what follows it
PrefixosDeCompetencia == {<<>>, <<" ">>, <<"0">>}

SufixosDeCompetencia == {<<>>, <<" ">>, <<"x">>, <<"-","0","2">>, <<"/","2","0","2","4">>,
        <<"5">>}

Competencias ==
    {p \o n \o s : p \in PrefixosDeCompetencia, n \in NucleosDeCompetencia,
                   s \in SufixosDeCompetencia}

\* ------------------------------------------------------------------------
\* The pipeline of one document and the consolidated report (core.py)
\* ------------------------------------------------------------------------
\* MotivoSemTexto: "PDF sem texto extrai'vel"
MotivoSemTexto ==
    <<"P","D","F"," ","s","e","m"," ","t","e","x","t","o"," ","e","x","t","r","a","i'","v","e","l">>

\* ErroExtrairTexto: "Na~o foi possi'vel extrair texto do PDF"
ErroExtrairTexto ==
    <<"N","a~","o"," ","f","o","i"," ","p","o","s","s","i'","v","e","l"," ","e","x","t","r","a",
      "i","r"," ","t","e","x","t","o"," ","d","o"," ","P","D","F">>

\* ErroTipoNaoSuportado: "Tipo de documento na~o suportado"
ErroTipoNaoSuportado ==
    <<"T","i","p","o"," ","d","e"," ","d","o","c","u","m","e","n","t","o"," ","n","a~","o"," ",
      "s","u","p","o","r","t","a","d","o">>

\* the default of classify's parameter debug_lines
DebugLinesPadrao == 80

\* extrair_texto_pdf(caminho_pdf) on a file pdfplumber opens: the texts of
\* the pages, joined and stripped
extrair_texto_pdf(pdf) == pdf.texto

\* extrair_texto_pdf(caminho_pdf) raises: pdfplumber cannot open the file of
\* path p (path 0 is the file that is no PDF)
extrair_texto_pdf_levanta(p) == p = 0

\* the exception extrair_texto_pdf raises
ExcecaoExtrairTexto == <<"E","r","r","o"," ","a","o"," ","e","x","t","r","a","i","r"," ","t","e",
        "x","t","o"," ","d","o"," ","P","D","F",":"," ">> \o MensagemErroAbertura

\* the orders in which the FGTS parser, if it is the one processar_documento
\* calls on PDF p, can iterate its set; one empty order otherwise
ordens_do_documento(p) ==
    IF /\ extrair_texto_pdf(PDFs[p]) # <<>>
       /\ classify(extrair_texto_pdf(PDFs[p]), DebugLinesPadrao).doc_type = "fgts"
    THEN Ordens(competencias_encontradas(PDFs[p].texto))
    ELSE {<<>>}

\* the dict processar_documento returns for a document of a type it has no
\* parser for
documento_sem_parser(classificacao) ==
    [doc_type |-> classificacao.doc_type, parser_used |-> None,
     confidence_reason |-> classificacao.confidence_reason,
     debug_text_head |-> classificacao.debug_text_head,
     erro |-> Some(ErroTipoNaoSuportado), resultado |-> NoneOpt]

\* the dict processar_documento returns for a document its parser
\* parser_used has interpreted
documento_interpretado(classificacao, parser_used, res) ==
    [doc_type |-> classificacao.doc_type, parser_used |-> parser_used,
     confidence_reason |-> classificacao.confidence_reason,
     debug_text_head |-> NoneOpt, erro |-> NoneOpt, resultado |-> Some(res)]

\* processar_documento from the classification on
documento_classificado(p, ordem, classificacao) ==
    IF classificacao.doc_type = "receita_federal"
    THEN documento_interpretado(classificacao, "interpretar_pdf_receita",
             interpretar_pdf_receita(ler_pdf_receita(PDFs[p]), ResultadoParsers))
    ELSE IF classificacao.doc_type = "fgts"
    THEN documento_interpretado(classificacao, "interpretar_pdf_fgts",
             interpretar_pdf_fgts(ler_pdf_fgts(PDFs[p]), ResultadoParsers, ordem))
    ELSE IF classificacao.doc_type = "sefaz"
    THEN documento_interpretado(classificacao, "interpretar_pdf_sefaz",
             interpretar_pdf_sefaz(ler_pdf_sefaz(PDFs[p]), ResultadoParsers))
    ELSE documento_sem_parser(classificacao)

\* processar_documento(caminho_pdf) on PDF p: each parser is called with no
\* accumulator and so starts from a new ResultadoParsers().  The key "erro"
\* is absent when erro is NoneOpt, the key "resultado" when resultado is.
\* The parsers catch their own exceptions, so the branch "Erro no parser" is
\* not taken.
processar_documento(p, ordem) ==
    IF extrair_texto_pdf(PDFs[p]) = <<>>
    THEN [doc_type |-> "desconhecido", parser_used |-> None,
          confidence_reason |-> MotivoSemTexto, debug_text_head |-> NoneOpt,
          erro |-> Some(ErroExtrairTexto), resultado |-> NoneOpt]
    ELSE documento_classificado(p, ordem,
                                classify(extrair_texto_pdf(PDFs[p]), DebugLinesPadrao))

\* processar_documento(caminho_pdf) raises: it calls extrair_texto_pdf before
\* its try
processar_documento_levanta(p) == extrair_texto_pdf_levanta(p)

\* what processar_documento returns on each PDF, for each order
Documentos ==
    tupla([p \in 1..Len(PDFs) |->
              [ordem \in ordens_do_documento(p) |-> processar_documento(p, ordem)] @@ <<>>])

\* extrair_competencias_de_lista(itens), the items holding the key
\* competencia only, an Optional[str]
extrair_competencias_de_lista(itens) ==
    LET tem(item) == truthy_str(item.competencia)
        com == SelectSeq(itens, tem)
    IN  [i \in 1..Len(com) |-> com[i].competencia[1]]

\* core.normalizar_competencia(comp): the code of the Receita parser's
\* _normalizar_competencia, after "if not comp: return None"
normalizar_competencia(comp) ==
    IF comp = <<>> THEN NoneOpt ELSE normalizar_competencia_rf(comp)

\* the ASCII characters of code points 32 to 95 and 97 to 126, in order
\* AsciiDe32: " !"#$%&'()*+,-./0123456789:;<=>?@ABCDEFGHIJKLMNOPQRSTUVWXYZ[\]^_"
AsciiDe32 ==
    <<" ","!","\"","#","$","%","&","'","(",")","*","+",",","-",".","/","0","1","2","3","4","5",
      "6","7","8","9",":",";","<","=",">","?","@","A","B","C","D","E","F","G","H","I","J","K","L",
      "M","N","O","P","Q","R","S","T","U","V","W","X","Y","Z","[","\\","]","^","_">>

\* AsciiDe97: "abcdefghijklmnopqrstuvwxyz{|}~"
AsciiDe97 ==
    <<"a","b","c","d","e","f","g","h","i","j","k","l","m","n","o","p","q","r","s","t","u","v","w",
      "x","y","z","{","|","}","~">>

\* ord(c), c one of those characters
ord(c) ==
    IF \E i \in 1..Len(AsciiDe32) : AsciiDe32[i] = c
    THEN 31 + CHOOSE i \in 1..Len(AsciiDe32) : AsciiDe32[i] = c
    ELSE 96 + CHOOSE i \in 1..Len(AsciiDe97) : AsciiDe97[i] = c

\* a < b and a <= b on two str of ASCII characters
str_lt(a, b) ==
    \E i \in 1..(Min(Len(a), Len(b)) + 1) :
        /\ SubSeq(a, 1, i - 1) = SubSeq(b, 1, i - 1)
        /\ \/ i > Len(a) /\ i <= Len(b)
           \/ i <= Len(a) /\ i <= Len(b) /\ ord(a[i]) < ord(b[i])

str_le(a, b) == a = b \/ str_lt(a, b)

\* the competencias one result of processar_documento adds to
\* todas_competencias.  The Receita dict holds no key "simples" and no key
\* "tributos" (its keys are simples_nacional and debitos_gerais), so those
\* two tests of the code add nothing.
competencias_do_resultado(doc) ==
    IF doc.erro # NoneOpt \/ doc.resultado = NoneOpt THEN <<>>
    ELSE LET res == doc.resultado[1]
             da_receita ==
                 IF res.receita_federal # EmptyDict
                 THEN extrair_competencias_de_lista(
                          res.receita_federal[1].contribuicoes.detalhes)
                 ELSE <<>>
             pendencias == res.sefaz_estadual[1].pendencias_identificadas
             tem_exercicio(ipva) == ipva.exercicio # <<>>
             ipvas == SelectSeq(pendencias.ipva, tem_exercicio)
             tem_referencia(item) == truthy_str(item.periodo_referencia)
             fronteiras == SelectSeq(pendencias.icms_fronteira_antecipado, tem_referencia)
             tem_periodo(item) == item.periodo # <<>>
             autuacoes == SelectSeq(pendencias.debitos_fiscais_autuacoes, tem_periodo)
             do_sefaz ==
                 IF res.sefaz_estadual # EmptyDict
                 THEN [i \in 1..Len(ipvas) |-> ipvas[i].exercicio \o <<"-", "0", "1">>]
                      \o [i \in 1..Len(fronteiras) |-> fronteiras[i].periodo_referencia[1]]
                      \o [i \in 1..Len(autuacoes) |-> autuacoes[i].periodo]
                 ELSE <<>>
             tem_competencia(debito) == debito.competencia # <<>>
             debitos ==
                 SelectSeq(res.fgts[1].pendencias_financeiras.lista_debitos, tem_competencia)
             do_fgts ==
                 IF res.fgts # EmptyDict
                 THEN [i \in 1..Len(debitos) |-> debitos[i].competencia]
                 ELSE <<>>
         IN  da_receita \o do_sefaz \o do_fgts

RECURSIVE todas_competencias_de(_, _)
todas_competencias_de(docs, i) ==
    IF i > Len(docs) THEN <<>>
    ELSE competencias_do_resultado(docs[i]) \o todas_competencias_de(docs, i + 1)

\* determinar_periodo(resultados): of the competencias that normalize, sorted
\* as str, the first and the last
determinar_periodo(docs) ==
    LET todas_competencias == todas_competencias_de(docs, 1)
        competencias_normalizadas ==
            {normalizar_competencia(todas_competencias[i])[1] :
                i \in {j \in 1..Len(todas_competencias) :
                          truthy_str(normalizar_competencia(todas_competencias[j]))}}
    IN  IF competencias_normalizadas = {} THEN [inicio |-> NoneOpt, fim |-> NoneOpt]
        ELSE [inicio |-> Some(CHOOSE m \in competencias_normalizadas :
                                  \A o \in competencias_normalizadas : str_le(m, o)),
              fim |-> Some(CHOOSE m \in competencias_normalizadas :
                               \A o \in competencias_normalizadas : str_le(o, m))]

\* criar_schema_vazio(), without the keys receita_federal.pgfn_previdencia
\* and receita_federal.previdencia, and of pgfn the key
\* parcelamento_unificado only
SchemaVazio ==
    [periodo |-> [inicio |-> NoneOpt, fim |-> NoneOpt],
     receita_federal |->
         [contribuicoes |-> [seguro_total |-> 0, patronal_total |-> 0, terceiros_total |-> 0,
                             total_geral |-> 0, detalhes |-> <<>>],
          simples |-> [tem_debito_em_aberto |-> FALSE, debitos |-> <<>>,
                       tem_parcelamento |-> FALSE,
                       parcelamento |-> [tipo |-> None, parcelas_em_atraso |-> NoneOpt],
                       observacao |-> NoneOpt],
          tributos |-> [irrf |-> <<>>, irls |-> <<>>, pis |-> <<>>, cofins |-> <<>>]],
     sefaz |-> [situacao |-> None, ipva |-> <<>>,
                fronteira |-> [tem_em_aberto |-> FALSE, itens |-> <<>>],
                debitos_fiscais |-> [tem |-> FALSE, itens |-> <<>>],
                observacao |-> NoneOpt],
     fgts |-> [situacao |-> None, debitos |-> <<>>, observacao |-> NoneOpt],
     pgfn |-> [parcelamento_unificado |->
                   [tem |-> FALSE, situacao |-> NoneOpt, observacao |-> NoneOpt]],
     resumo |-> [previdencia_total |-> 0, previdencia_itens |-> <<>>],
     observacoes_gerais |-> <<>>]

\* sum(item.get('valor', 0.0) or 0.0 for item in detalhes
\*     if item.get('categoria') == categoria)
RECURSIVE soma_da_categoria(_, _, _)
soma_da_categoria(detalhes, categoria, i) ==
    IF i > Len(detalhes) THEN 0
    ELSE (IF detalhes[i].categoria = categoria /\ detalhes[i].valor # NoneOpt
          THEN detalhes[i].valor[1] ELSE 0)
         + soma_da_categoria(detalhes, categoria, i + 1)

\* the dict written to relatorio["receita_federal"]["contribuicoes"] from the
\* contribuicoes of one Receita document: with a period, the details
\* filtered by it and the totals computed again; without, the parser's
contribuicoes_do_relatorio(contrib, periodo) ==
    IF truthy_str(periodo.inicio) /\ truthy_str(periodo.fim)
    THEN LET fica(item) ==
                 IF truthy_str(item.competencia)
                 THEN LET comp_norm == normalizar_competencia(item.competencia[1])
                      IN  /\ truthy_str(comp_norm)
                          /\ str_le(periodo.inicio[1], comp_norm[1])
                          /\ str_le(comp_norm[1], periodo.fim[1])
                 ELSE TRUE
             detalhes == SelectSeq(contrib.detalhes, fica)
             seguro_total == soma_da_categoria(detalhes, "seguro", 1)
             patronal_total == soma_da_categoria(detalhes, "patronal", 1)
             terceiros_total == soma_da_categoria(detalhes, "terceiros", 1)
         IN  [seguro_total |-> seguro_total, patronal_total |-> patronal_total,
              terceiros_total |-> terceiros_total,
              total_geral |-> seguro_total + patronal_total + terceiros_total,
              detalhes |-> detalhes]
    ELSE [seguro_total |-> contrib.seguro_total, patronal_total |-> contrib.patronal_total,
          terceiros_total |-> contrib.terceiros_total, total_geral |-> contrib.total_geral,
          detalhes |-> contrib.detalhes]

\* str(doc_type) in an observation
nome_do_tipo(doc_type) ==
    CASE doc_type = "receita_federal" -> <<"r","e","c","e","i","t","a","_","f","e","d","e","r",
            "a","l">>
      [] doc_type = "fgts" -> <<"f","g","t","s">>
      [] doc_type = "sefaz" -> <<"s","e","f","a","z">>
      [] doc_type = "desconhecido" -> <<"d","e","s","c","o","n","h","e","c","i","d","o">>

\* periodo.get('inicio') and periodo.get('fim')
periodo_definido(periodo) == truthy_str(periodo.inicio) /\ truthy_str(periodo.fim)

\* the test of a filter that keeps every item
fica_sempre(item, periodo) == TRUE

\* the test of the filters of the Simples debts and of the tax-type debts: an
\* item stays when its competency normalizes into the period or when it has
\* none
fica_no_periodo(item, periodo) ==
    IF truthy_str(item.competencia)
    THEN seja(normalizar_competencia(item.competencia[1]), LAMBDA comp_norm :
             /\ truthy_str(comp_norm)
             /\ str_le(periodo.inicio[1], comp_norm[1])
             /\ str_le(comp_norm[1], periodo.fim[1]))
    ELSE TRUE

\* the items of a list filtered by the period, if there is one
filtrados_por_periodo(itens, periodo) ==
    IF periodo_definido(periodo)
    THEN SelectSeq(itens, LAMBDA item : fica_no_periodo(item, periodo))
    ELSE itens

\* the dict written to relatorio["receita_federal"]["simples"]
simples_do_relatorio(simples, periodo) ==
    seja(filtrados_por_periodo(simples.debitos, periodo), LAMBDA debitos :
        [tem_debito_em_aberto |-> Len(debitos) > 0 \/ simples.tem_pendencias,
         debitos |-> debitos,
         tem_parcelamento |-> simples.parcelamento.tem_parcelamento,
         parcelamento |-> [tipo |-> simples.parcelamento.tipo,
                           parcelas_em_atraso |-> simples.parcelamento.parcelas_atraso],
         observacao |-> NoneOpt])

\* the dict written to relatorio["receita_federal"]["tributos"]
tributos_do_relatorio(debitos, periodo) ==
    [irrf |-> filtrados_por_periodo(debitos.IRRF, periodo),
     irls |-> filtrados_por_periodo(debitos.IRLS, periodo),
     pis |-> filtrados_por_periodo(debitos.PIS, periodo),
     cofins |-> filtrados_por_periodo(debitos.COFINS, periodo)]

\* the sections of relatorio["receita_federal"] written from the dict of one
\* Receita document; the sections pgfn are left out
receita_do_relatorio(rf, rf_data, periodo) ==
    [rf EXCEPT !.contribuicoes = contribuicoes_do_relatorio(rf_data.contribuicoes, periodo),
               !.simples = simples_do_relatorio(rf_data.simples_nacional, periodo),
               !.tributos = tributos_do_relatorio(rf_data.debitos_gerais, periodo)]

\* dict.get(chave) of a dict whose values are strings: None when absent
get_str(d, chave) == IF chave \in DOMAIN d THEN Some(d[chave]) ELSE NoneOpt

\* relatorio["sefaz"] after the branch SEFAZ on the record of one document
sefaz_do_relatorio(sefaz, sefaz_data) ==
    LET pendencias == sefaz_data.pendencias_identificadas
        ipvas == [i \in 1..Len(pendencias.ipva) |->
                     [ano |-> IF /\ pendencias.ipva[i].exercicio # <<>>
                                 /\ \A k \in 1..Len(pendencias.ipva[i].exercicio) :
                                        pendencias.ipva[i].exercicio[k] \in Digits
                              THEN Some(int_de(pendencias.ipva[i].exercicio))
                              ELSE NoneOpt,
                      valor |-> pendencias.ipva[i].valor_total,
                      situacao |-> pendencias.ipva[i].status]]
        tipo_doc == IF "tipo_documento" \in DOMAIN sefaz_data
                    THEN sefaz_data.tipo_documento ELSE "extrato"
        fronteira_items ==
            IF tipo_doc = "extrato" THEN pendencias.icms_fronteira_antecipado ELSE <<>>
        debitos_fiscais == pendencias.debitos_fiscais_autuacoes
        observacao == get_str(sefaz_data.mensagens_sistema, "observacao")
    IN  [situacao |->
             IF "situacao_geral" \in DOMAIN sefaz_data.cabecalho_documento
             THEN sefaz_data.cabecalho_documento.situacao_geral ELSE None,
         ipva |-> sefaz.ipva \o ipvas,
         fronteira |->
             [tem_em_aberto |-> sefaz.fronteira.tem_em_aberto \/ fronteira_items # <<>>,
              itens |-> sefaz.fronteira.itens
                        \o [i \in 1..Len(fronteira_items) |->
                               [competencia |-> fronteira_items[i].periodo_referencia,
                                valor |-> fronteira_items[i].valor_total]]],
         debitos_fiscais |->
             [tem |-> sefaz.debitos_fiscais.tem \/ debitos_fiscais # <<>>,
              itens |-> sefaz.debitos_fiscais.itens
                        \o [i \in 1..Len(debitos_fiscais) |->
                               [descricao |-> debitos_fiscais[i].natureza_debito,
                                competencia |-> debitos_fiscais[i].periodo,
                                valor |-> debitos_fiscais[i].valor_consolidado]]],
         observacao |-> IF truthy_str(observacao) THEN observacao ELSE sefaz.observacao]

\* relatorio["fgts"] after the branch FGTS on the record of one document
fgts_do_relatorio(fgts, fgts_data) ==
    LET pendencias == fgts_data.pendencias_financeiras
        observacao == get_str(fgts_data.mensagens_sistema, "observacao")
    IN  [situacao |-> fgts_data.crf_detalhes.situacao_atual,
         debitos |-> fgts.debitos
                     \o [i \in 1..Len(pendencias.lista_debitos) |->
                            [competencia |-> pendencias.lista_debitos[i].competencia,
                             valor |-> pendencias.lista_debitos[i].valor_estimado,
                             situacao |-> IF pendencias.possui_debitos THEN "EM ABERTO"
                                          ELSE None]],
         observacao |-> IF truthy_str(observacao) THEN observacao ELSE fgts.observacao]

\* the text before the amount in the observation of a Parcelamento Unificado
ObservacaoUnificado == <<"V","a","l","o","r"," ","p","r","e","v","i","d","e","n","c","i","a'","r",
        "i","o"," ","c","o","n","s","o","l","i","d","a","d","o",":"," ","R","$">> \o <<" ">>

\* texto_completo_global of gerar_relatorio_consolidado: the text of each
\* path whose result has no truthy erro, in the order of the paths
RECURSIVE texto_completo_global(_, _, _)
texto_completo_global(caminhos_pdf, docs, i) ==
    IF i > Len(docs) THEN <<>>
    ELSE (IF docs[i].erro # NoneOpt /\ docs[i].erro[1] # <<>> THEN <<>>
          ELSE extrair_texto_pdf(PDFs[caminhos_pdf[i]]))
         \o texto_completo_global(caminhos_pdf, docs, i + 1)

\* the dict parcelamento_unificado of the block "Parcelamento Unificado",
\* relatorio_ the report as it is when the block runs
parcelamento_unificado_de(relatorio_, texto_global) ==
    LET texto_upper == text_upper(texto_global)
        resumo_prev == relatorio_.resumo
    IN  IF ~text_in(<<"P","A","R","C","E","L","A","M","E","N","T","O"," ","U","N","I","F","I","C",
            "A","D","O">>, texto_upper)
        THEN [tem |-> FALSE, situacao |-> NoneOpt, observacao |-> NoneOpt]
        ELSE [tem |-> TRUE,
              situacao |->
                  IF text_in(<<"R","E","G","U","L","A","R">>, texto_upper) THEN Some(<<"R","E",
                          "G","U","L","A","R">>)
                  ELSE IF text_in(<<"I","R","R","E","G","U","L","A","R">>,
                          texto_upper) THEN Some(<<"I","R","R","E","G","U","L","A","R">>)
                  ELSE IF text_in(<<"E","M"," ","A","T","R","A","S","O">>,
                          texto_upper) THEN Some(<<"E","M"," ","A","T","R","A","S","O">>)
                  ELSE NoneOpt,
              observacao |->
                  IF resumo_prev.previdencia_total > 0
                  THEN Some(ObservacaoUnificado
                            \o replace(replace(replace(
                                   formato_2f(resumo_prev.previdencia_total),
                                   ",", <<"X">>), ".", <<",">>), "X", <<".">>))
                  ELSE NoneOpt]

\* relatorio["pgfn"] written from one Receita document: the dict pgfn of the
\* parser always holds its two keys and so is truthy
pgfn_do_relatorio(relatorio_, texto_global) ==
    [parcelamento_unificado |-> parcelamento_unificado_de(relatorio_, texto_global)]

\* the observation of a document in error
observacao_do_erro(doc) ==
    <<"D","o","c","u","m","e","n","t","o"," ">> \o nome_do_tipo(doc.doc_type) \o <<":", " ">>
    \o (IF doc.erro # NoneOpt THEN doc.erro[1] ELSE <<"E","r","r","o"," ","d","e","s","c","o","n",
            "h","e","c","i","d","o">>)

\* the body of "for resultado in resultados" of gerar_relatorio_consolidado
\* on one result
consolida_resultado(rel, doc, texto_global) ==
    IF doc.erro # NoneOpt \/ doc.resultado = NoneOpt
    THEN [rel EXCEPT !.observacoes_gerais = Append(@, observacao_do_erro(doc))]
    ELSE IF doc.doc_type = "receita_federal" /\ doc.resultado[1].receita_federal # EmptyDict
    THEN [rel EXCEPT !.receita_federal =
             receita_do_relatorio(@, doc.resultado[1].receita_federal[1], rel.periodo),
                     !.pgfn = pgfn_do_relatorio(rel, texto_global)]
    ELSE IF doc.doc_type = "sefaz" /\ doc.resultado[1].sefaz_estadual # EmptyDict
    THEN [rel EXCEPT !.sefaz = sefaz_do_relatorio(@, doc.resultado[1].sefaz_estadual[1])]
    ELSE IF doc.doc_type = "fgts" /\ doc.resultado[1].fgts # EmptyDict
    THEN [rel EXCEPT !.fgts = fgts_do_relatorio(@, doc.resultado[1].fgts[1])]
    ELSE rel

\* "for resultado in resultados", applied to results i..
RECURSIVE consolida_resultados(_, _, _, _)
consolida_resultados(rel, docs, i, texto_global) ==
    IF i > Len(docs) THEN rel
    ELSE consolida_resultados(consolida_resultado(rel, docs[i], texto_global),
                              docs, i + 1, texto_global)

\* aplicar_regra_sem_debito(relatorio): the branch PGFN does nothing
aplicar_regra_sem_debito(relatorio_) ==
    LET simples == relatorio_.receita_federal.simples
        fronteira == relatorio_.sefaz.fronteira
        debitos_fiscais == relatorio_.sefaz.debitos_fiscais
        obs_fronteira ==
            IF ~fronteira.tem_em_aberto /\ fronteira.itens = <<>>
            THEN Some(ObservacaoSemDebitos) ELSE relatorio_.sefaz.observacao
    IN  [relatorio_ EXCEPT
            !.receita_federal.simples.observacao =
                IF ~simples.tem_debito_em_aberto /\ simples.debitos = <<>>
                THEN Some(ObservacaoSemDebitos) ELSE @,
            !.sefaz.observacao =
                IF /\ ~debitos_fiscais.tem /\ debitos_fiscais.itens = <<>>
                   /\ ~truthy_str(obs_fronteira)
                THEN Some(ObservacaoSemDebitos) ELSE obs_fronteira,
            !.fgts.observacao =
                IF relatorio_.fgts.debitos = <<>> THEN Some(ObservacaoSemDebitos) ELSE @]

\* "item.get('valor') or 0.0"
valor_ou_zero(item) == IF item.valor # NoneOpt THEN item.valor[1] ELSE 0

\* the entries of previdencia_itens for the contribution items of a category
itens_da_categoria(detalhes, categoria) ==
    seja(SelectSeq(detalhes, LAMBDA item : item.categoria = categoria), LAMBDA itens :
        [i \in 1..Len(itens) |->
            [fonte |-> "receita_federal", tipo |-> "previdenciaria", subtipo |-> categoria,
             competencia |-> itens[i].competencia, valor |-> valor_ou_zero(itens[i]),
             codigo |-> itens[i].codigo]])

\* the sum of the key valor of the entries i..
RECURSIVE soma_dos_valores(_, _)
soma_dos_valores(itens, i) ==
    IF i > Len(itens) THEN 0 ELSE itens[i].valor + soma_dos_valores(itens, i + 1)

\* what a parcelamento adds to previdencia_total, whatever its regime
valor_do_sispar_de_qualquer_regime(parc) ==
    IF truthy_str(parc.valor_total_parcelado)
    THEN seja(converter_valor_br_para_float(parc.valor_total_parcelado[1]),
              LAMBDA valor_float : IF valor_float > 0 THEN valor_float ELSE 0)
    ELSE 0

\* what a SISPAR parcelamento adds to previdencia_total: valor_total_parcelado
\* is None or a str
valor_do_sispar(parc) ==
    IF parc.regime = "PREVIDENCIARIO" /\ truthy_str(parc.valor_total_parcelado)
    THEN seja(converter_valor_br_para_float(parc.valor_total_parcelado[1]),
              LAMBDA valor_float : IF valor_float > 0 THEN valor_float ELSE 0)
    ELSE 0

RECURSIVE soma_do_sispar(_, _)
soma_do_sispar(parcelamentos, i) ==
    IF i > Len(parcelamentos) THEN 0
    ELSE valor_do_sispar(parcelamentos[i]) + soma_do_sispar(parcelamentos, i + 1)

\* the entries of previdencia_itens for the SISPAR parcelamentos
itens_do_sispar(parcelamentos) ==
    seja(SelectSeq(parcelamentos, LAMBDA parc : parc.regime = "PREVIDENCIARIO"),
         LAMBDA previdenciarios :
             [i \in 1..Len(previdenciarios) |->
                 [fonte |-> "sispar", tipo |-> "previdenciaria",
                  conta |-> previdenciarios[i].conta, regime |-> previdenciarios[i].regime,
                  valor |-> previdenciarios[i].valor_total_parcelado]])

\* what one result adds to the summary: the Receita dict holds no key pgfn
previdencia_do_resultado(resumo, doc) ==
    IF doc.erro # NoneOpt \/ doc.resultado = NoneOpt THEN resumo
    ELSE IF doc.resultado[1].receita_federal = EmptyDict THEN resumo
    ELSE LET rf == doc.resultado[1].receita_federal[1]
             patronais == itens_da_categoria(rf.contribuicoes.detalhes, "patronal")
             seguros == itens_da_categoria(rf.contribuicoes.detalhes, "seguro")
             parcelamentos == IF rf.sispar.tem_sispar THEN rf.sispar.parcelamentos ELSE <<>>
         IN  [previdencia_total |->
                  resumo.previdencia_total + soma_dos_valores(patronais, 1)
                  + soma_dos_valores(seguros, 1) + soma_do_sispar(parcelamentos, 1),
              previdencia_itens |->
                  resumo.previdencia_itens \o patronais \o seguros
                  \o itens_do_sispar(parcelamentos)]

RECURSIVE previdencia_dos_resultados(_, _, _)
previdencia_dos_resultados(resumo, docs, i) ==
    IF i > Len(docs) THEN resumo
    ELSE previdencia_dos_resultados(previdencia_do_resultado(resumo, docs[i]), docs, i + 1)

\* consolidar_previdencia(resultados)
consolidar_previdencia(docs) ==
    previdencia_dos_resultados([previdencia_total |-> 0, previdencia_itens |-> <<>>], docs, 1)

\* the report before aplicar_regra_sem_debito: the period and the sections
\* of each result
relatorio_consolidado(caminhos_pdf, docs) ==
    consolida_resultados([SchemaVazio EXCEPT !.periodo = determinar_periodo(docs)],
                         docs, 1, texto_completo_global(caminhos_pdf, docs, 1))

\* gerar_relatorio_consolidado(caminhos_pdf), docs what processar_documento
\* returned on each path
gerar_relatorio_consolidado(caminhos_pdf, docs) ==
    [aplicar_regra_sem_debito(relatorio_consolidado(caminhos_pdf, docs))
        EXCEPT !.resumo = consolidar_previdencia(docs)]

MaxPDFs == 2

\* the tables of a direct call of processar_receita whose totals are checked
MaxTabelasTotais == 1

\* the results handed to consolidar_previdencia: at most MaxResultados
MaxResultados == 2

\* the values of the form's field "Valor Total Parcelado (R$)"
TotaisDoFormulario ==
    {NoneOpt, Some(<<>>), Some(<<"R","$"," ","1",".","0","0","0",",","0","0">>), Some(<<"0",",",
            "0","0">>), Some(<<"a","b","c">>), Some(<<"1",",","2",",","3">>)}

\* a result whose SISPAR parcelamentos hold the total the reviewer typed
com_valor_total(doc, valor_total) ==
    [doc EXCEPT !.resultado[1].receita_federal[1].sispar.parcelamentos =
        [i \in 1..Len(@) |-> [@[i] EXCEPT !.valor_total_parcelado = valor_total]]]

\* the results a caller of consolidar_previdencia holds: what
\* processar_documento returned on two Receita reports, on a Receita table
\* of the three categories, on an FGTS certificate and on the PDF with no
\* text, and on the two reports with a SISPAR section, their total typed in
ResultadosPrevidencia ==
    {Documentos[p][<<>>] : p \in {1, 2, 3, 8, 13}}
    \cup {com_valor_total(Documentos[p][<<>>], valor_total) :
              p \in {17, 18}, valor_total \in TotaisDoFormulario}

\* ------------------------------------------------------------------------
\* app.py: the action "Ler PDFs e Extrair Dados"
\* ------------------------------------------------------------------------
\* the uploads in the order the action stages them
NomesDosUploads == <<"receita", "fgts", "sefaz">>

\* what st.file_uploader holds: nothing, or the content of a file (a PDF of
\* the model, or 0, a content pdfplumber cannot open)
UploadsDe(pdfs) == {NoneOpt, Some(0)} \cup {Some(p) : p \in pdfs}

\* how the staging of an upload can fail: tempfile.NamedTemporaryFile raises
\* and no file is created, or tmp.write raises after the file was created
\* with delete=False
FalhasDe(uploads) ==
    {NoneOpt} \cup {Some([nome |-> NomesDosUploads[i], em |-> em]) :
                       i \in {j \in 1..3 : uploads[NomesDosUploads[j]] # NoneOpt},
                       em \in {"criar", "escrever"}}

\* the loop that stages the uploads, from the i-th on: arquivos are the
\* temporary files on disk, tmp_paths the names the dict holds, levantou
\* whether an exception left the loop
RECURSIVE salvar_temporarios(_, _, _, _)
salvar_temporarios(uploads, falha, i, t) ==
    IF i > Len(NomesDosUploads) THEN t
    ELSE IF uploads[NomesDosUploads[i]] = NoneOpt
    THEN salvar_temporarios(uploads, falha, i + 1, t)
    ELSE IF falha = Some([nome |-> NomesDosUploads[i], em |-> "criar"])
    THEN [t EXCEPT !.levantou = TRUE]
    ELSE IF falha = Some([nome |-> NomesDosUploads[i], em |-> "escrever"])
    THEN [t EXCEPT !.arquivos = @ \cup {NomesDosUploads[i]}, !.levantou = TRUE]
    ELSE salvar_temporarios(uploads, falha, i + 1,
                            [t EXCEPT !.arquivos = @ \cup {NomesDosUploads[i]},
                                      !.tmp_paths = @ \cup {NomesDosUploads[i]}])

\* tmp_paths.get(nome): the path of the staged file
caminho_temporario(uploads, t, nome) ==
    IF nome \in t.tmp_paths THEN Some(Arquivo(uploads[nome][1])) ELSE NoneOpt

\* the body of the action: the files left on disk, how the action ended and
\* the value written to st.session_state["resultado_parsers"].  Nothing
\* guards the staging loop, so an exception in it skips the call of the
\* parsers and the loop of os.remove
ler_pdfs(uploads, falha, ordem) ==
    seja(salvar_temporarios(uploads, falha, 1,
                            [arquivos |-> {}, tmp_paths |-> {}, levantou |-> FALSE]),
         LAMBDA t :
             IF t.levantou
             THEN [arquivos |-> t.arquivos, saida |-> "excecao", resultado |-> NoneOpt]
             ELSE [arquivos |-> t.arquivos \ t.tmp_paths, saida |-> "concluida",
                   resultado |->
                       Some(interpretar_todos(caminho_temporario(uploads, t, "receita"),
                                              caminho_temporario(uploads, t, "fgts"),
                                              caminho_temporario(uploads, t, "sefaz"),
                                              ordem).resultado)])

\* ------------------------------------------------------------------------
\* Operations
\* ------------------------------------------------------------------------
varsCls == <<cTexto, cDebugLines, cRes>>

varsDados == <<resultado, dados, dadosAntes, mesclado, retTem>>

varsSefaz == <<sTexto, sTabelas, sRes>>

varsReceita == <<rTexto, rTabelas, rRes>>

varsSessao == <<chamadas>>

varsRelatorio == <<caminhos, resultados, relatorio, excecao>>

varsFgts == <<fTexto, fRes>>

varsForm == <<sessionState, formReceita>>

varsTodos == <<tReceitaPdf, tFgtsPdf, tSefazPdf, tRet>>

varsPrev == <<pResultados, pResumo>>

varsLer == <<lUploads, lTmp, lSaida, lResultado>>

varsMoeda == <<mValor, mTexto, mVolta>>

varsNorm == <<nComp, nRes, nDeNovo>>

vars == <<varsCls, varsDados, varsSefaz, varsReceita, varsSessao, varsRelatorio, varsFgts, varsForm, varsTodos, varsPrev, varsLer, varsMoeda, varsNorm>>

\* no call of the classifier is under way
IdleCls == cTexto = <<>> /\ cDebugLines = 0 /\ cRes = NoneOpt

\* no ResultadoParsers object is in use
IdleDados ==
    /\ resultado = ResultadoParsers
    /\ dados = [k \in {} |-> NoneOpt]
    /\ dadosAntes = [k \in {} |-> NoneOpt]
    /\ mesclado = FALSE
    /\ retTem = NoneOpt

\* no call of processar_sefaz is under way
IdleSefaz == sTexto = <<>> /\ sTabelas = <<>> /\ sRes = NoneOpt

\* no call of processar_receita is under way
IdleReceita == rTexto = <<>> /\ rTabelas = <<>> /\ rRes = NoneOpt

\* no parser has been called
IdleSessao == chamadas = <<>>

\* no report is being generated
IdleRelatorio ==
    caminhos = <<>> /\ resultados = <<>> /\ relatorio = NoneOpt /\ excecao = NoneOpt

\* no call of processar_fgts is under way
IdleFgts == fTexto = <<>> /\ fRes = NoneOpt

\* no form has been submitted
IdleForm == sessionState = NoneOpt /\ formReceita = NoneOpt

\* no call of interpretar_todos
IdleTodos == tReceitaPdf = NoneOpt /\ tFgtsPdf = NoneOpt /\ tSefazPdf = NoneOpt /\ tRet = NoneOpt

\* no call of consolidar_previdencia
IdlePrev == pResultados = <<>> /\ pResumo = NoneOpt

\* no click on 'Ler PDFs'
IdleLer == lUploads = <<>> /\ lTmp = {} /\ lSaida = NoneOpt /\ lResultado = NoneOpt

\* no call of the money functions
IdleMoeda == mValor = NoneOpt /\ mTexto = NoneOpt /\ mVolta = NoneOpt

\* no call of normalizar_competencia
IdleNorm == nComp = <<>> /\ nRes = NoneOpt /\ nDeNovo = NoneOpt

\* a caller holds a text and a debug_lines argument
InitCls ==
    /\ cTexto \in Textos(ClsLinhas, MaxLinhasCls)
    /\ cDebugLines \in 1..MaxDebugLines
    /\ cRes = NoneOpt
    /\ IdleDados /\ IdleSefaz /\ IdleReceita /\ IdleSessao /\ IdleRelatorio /\ IdleFgts /\ IdleForm /\ IdleTodos /\ IdlePrev /\ IdleLer /\ IdleMoeda /\ IdleNorm

\* DocumentClassifier.classify(texto, debug_lines) returns
Classify ==
    /\ cRes = NoneOpt
    /\ cRes' = Some(classify(cTexto, cDebugLines))
    /\ UNCHANGED <<cTexto, cDebugLines, varsDados, varsSefaz, varsReceita, varsSessao, varsRelatorio, varsFgts, varsForm, varsTodos, varsPrev, varsLer, varsMoeda, varsNorm>>

SpecClassify == InitCls /\ [][Classify]_vars

\* a caller holds a ResultadoParsers built with some fields set, and a dict
InitDados ==
    /\ resultado \in Acumuladores(MaxCampos)
    /\ dados \in DadosIniciais
    /\ dadosAntes = dados
    /\ mesclado = FALSE
    /\ retTem = NoneOpt
    /\ IdleCls /\ IdleSefaz /\ IdleReceita /\ IdleSessao /\ IdleRelatorio /\ IdleFgts /\ IdleForm /\ IdleTodos /\ IdlePrev /\ IdleLer /\ IdleMoeda /\ IdleNorm

\* resultado.tem_algum_dado() returns
TemAlgumDado ==
    /\ retTem = NoneOpt
    /\ retTem' = Some(tem_algum_dado(resultado))
    /\ UNCHANGED <<resultado, dados, dadosAntes, mesclado, varsCls, varsSefaz, varsReceita, varsSessao, varsRelatorio, varsFgts, varsForm, varsTodos, varsPrev, varsLer, varsMoeda, varsNorm>>

\* resultado.mesclar_no_dados(dados) returns, having written into dados
MesclarNoDados ==
    /\ ~mesclado
    /\ dados' = mesclar_no_dados(resultado, dados)
    /\ mesclado' = TRUE
    /\ UNCHANGED <<resultado, dadosAntes, retTem, varsCls, varsSefaz, varsReceita, varsSessao, varsRelatorio, varsFgts, varsForm, varsTodos, varsPrev, varsLer, varsMoeda, varsNorm>>

SpecDados == InitDados /\ [][TemAlgumDado \/ MesclarNoDados]_vars

\* a caller holds the text and the tables extracted from a SEFAZ document
InitSefaz ==
    /\ sTexto \in Textos(SefazLinhas, MaxLinhasSefaz)
    /\ sTabelas \in TabelasAmostras
    /\ sRes = NoneOpt
    /\ IdleCls /\ IdleDados /\ IdleReceita /\ IdleSessao /\ IdleRelatorio /\ IdleFgts /\ IdleForm /\ IdleTodos /\ IdlePrev /\ IdleLer /\ IdleMoeda /\ IdleNorm

\* processar_sefaz(texto, tabelas) returns or raises
ProcessarSefaz ==
    /\ sRes = NoneOpt
    /\ sRes' = Some(processar_sefaz(sTexto, sTabelas))
    /\ UNCHANGED <<sTexto, sTabelas, varsCls, varsDados, varsReceita, varsSessao, varsRelatorio, varsFgts, varsForm, varsTodos, varsPrev, varsLer, varsMoeda, varsNorm>>

SpecSefaz == InitSefaz /\ [][ProcessarSefaz]_vars

\* every sequence of at most n elements of set S
SeqsAte(S, n) == UNION {[1..m -> S] : m \in 0..n}

\* a caller holds the text and the tables extracted from a Receita document
InitReceita ==
    /\ rTexto \in TextosRF
    /\ rTabelas \in SeqsAte(TabelasRF, MaxTabelasRF)
    /\ rRes = NoneOpt
    /\ IdleCls /\ IdleDados /\ IdleSefaz /\ IdleSessao /\ IdleRelatorio /\ IdleFgts /\ IdleForm /\ IdleTodos /\ IdlePrev /\ IdleLer /\ IdleMoeda /\ IdleNorm

\* processar_receita(texto, tabelas) returns
ProcessarReceita ==
    /\ rRes = NoneOpt
    /\ rRes' = Some(processar_receita(rTexto, rTabelas))
    /\ UNCHANGED <<rTexto, rTabelas, varsCls, varsDados, varsSefaz, varsSessao, varsRelatorio, varsFgts, varsForm, varsTodos, varsPrev, varsLer, varsMoeda, varsNorm>>

SpecReceita == InitReceita /\ [][ProcessarReceita]_vars

\* a caller holds the text extracted from an FGTS document
InitFgts ==
    /\ fTexto \in Textos(FgtsLinhas, MaxLinhasFgts)
    /\ fRes = NoneOpt
    /\ IdleCls /\ IdleDados /\ IdleSefaz /\ IdleReceita /\ IdleSessao /\ IdleRelatorio /\ IdleForm /\ IdleTodos /\ IdlePrev /\ IdleLer /\ IdleMoeda /\ IdleNorm

\* processar_fgts(texto) returns, having iterated its set of tokens in some
\* order
ProcessarFgts ==
    /\ fRes = NoneOpt
    /\ \E ordem \in Ordens(competencias_encontradas(fTexto)) :
           fRes' = Some(processar_fgts(fTexto, ordem))
    /\ UNCHANGED <<fTexto, varsCls, varsDados, varsSefaz, varsReceita, varsSessao, varsRelatorio, varsForm, varsTodos, varsPrev, varsLer, varsMoeda, varsNorm>>

SpecFgts == InitFgts /\ [][ProcessarFgts]_vars

\* a caller holds the text extracted from a Receita document with instalment
\* plans
InitParcelamentos ==
    /\ rTexto \in Textos(LinhasParcelamentos, MaxLinhasParcelamentos) \cup {TextoSiefparAtraso}
    /\ rTabelas = <<>>
    /\ rRes = NoneOpt
    /\ IdleCls /\ IdleDados /\ IdleSefaz /\ IdleSessao /\ IdleRelatorio /\ IdleFgts /\ IdleForm /\ IdleTodos /\ IdlePrev /\ IdleLer /\ IdleMoeda /\ IdleNorm

\* the reviewer submits the form: the data of SISPAR typed are written to a
\* copy of the dict of the Receita parser
AjustesManuaisSispar ==
    /\ rRes # NoneOpt
    /\ formReceita = NoneOpt
    /\ \E ss \in [1..Len(rRes[1].sispar.parcelamentos) -> SessoesDoParcelamento] :
           /\ sessionState' = Some(ss)
           /\ formReceita' = Some(receita_com_ajustes(rRes[1], ss))
    /\ UNCHANGED <<varsCls, varsDados, varsSefaz, varsReceita, varsSessao, varsRelatorio, varsFgts, varsTodos, varsPrev, varsLer, varsMoeda, varsNorm>>

SpecParcelamentos == InitParcelamentos /\ [][ProcessarReceita \/ AjustesManuaisSispar]_vars

\* a session starts with a new ResultadoParsers(); chamadas records the calls
\* made on it: the parser, the index of the PDF and, for the FGTS parser, the
\* order in which processar_fgts iterated its set
Init == IdleCls /\ IdleDados /\ IdleSefaz /\ IdleReceita /\ IdleSessao /\ IdleRelatorio /\ IdleFgts /\ IdleForm /\ IdleTodos /\ IdlePrev /\ IdleLer /\ IdleMoeda /\ IdleNorm

\* interpretar_pdf_receita(caminho_pdf, resultado) returns
InterpretarPdfReceita ==
    \E p \in PDFsSessao :
        /\ Len(chamadas) < MaxChamadas
        /\ resultado' = interpretar_pdf_receita(LidoReceita[p], resultado)
        /\ chamadas' = Append(chamadas, [parser |-> "receita_federal", pdf |-> p, ordem |-> <<>>])
        /\ UNCHANGED <<dados, dadosAntes, mesclado, retTem, varsCls, varsSefaz, varsReceita, varsRelatorio, varsFgts, varsForm, varsTodos, varsPrev, varsLer, varsMoeda, varsNorm>>

\* interpretar_pdf_fgts(caminho_pdf, resultado) returns, lido what it read
\* in PDF p
InterpretarPdfFgtsLido(p, lido) ==
    \E ordem \in DOMAIN lido.dados_processados :
        /\ Len(chamadas) < MaxChamadas
        /\ resultado' = interpretar_pdf_fgts(lido, resultado, ordem)
        /\ chamadas' = Append(chamadas, [parser |-> "fgts", pdf |-> p, ordem |-> ordem])
        /\ UNCHANGED <<dados, dadosAntes, mesclado, retTem, varsCls, varsSefaz, varsReceita, varsRelatorio, varsFgts, varsForm, varsTodos, varsPrev, varsLer, varsMoeda, varsNorm>>

\* interpretar_pdf_fgts(caminho_pdf, resultado) returns
InterpretarPdfFgts == \E p \in PDFsFgts : InterpretarPdfFgtsLido(p, LidoFgts[p])

\* interpretar_pdf_sefaz(caminho_pdf, resultado) returns
InterpretarPdfSefaz ==
    \E p \in PDFsSessao :
        /\ Len(chamadas) < MaxChamadas
        /\ resultado' = interpretar_pdf_sefaz(LidoSefaz[p], resultado)
        /\ chamadas' = Append(chamadas, [parser |-> "sefaz", pdf |-> p, ordem |-> <<>>])
        /\ UNCHANGED <<dados, dadosAntes, mesclado, retTem, varsCls, varsSefaz, varsReceita, varsRelatorio, varsFgts, varsForm, varsTodos, varsPrev, varsLer, varsMoeda, varsNorm>>

Next == InterpretarPdfReceita \/ InterpretarPdfFgts \/ InterpretarPdfSefaz

Spec == Init /\ [][Next]_vars

\* a caller holds the paths of at most MaxPDFs files: PDFs that name no
\* Parcelamento Unificado, or the file pdfplumber cannot open (path 0)
InitCaminhos ==
    /\ caminhos \in SeqsAte((0..Len(PDFs)) \ PDFsUnificado, MaxPDFs)
    /\ resultados = <<>>
    /\ relatorio = NoneOpt
    /\ excecao = NoneOpt
    /\ IdleCls /\ IdleDados /\ IdleSefaz /\ IdleReceita /\ IdleSessao /\ IdleFgts /\ IdleForm /\ IdleTodos /\ IdlePrev /\ IdleLer /\ IdleMoeda /\ IdleNorm

\* gerar_relatorio_consolidado(caminhos_pdf) returns the report of the
\* results rs of processar_documento
RelatorioDosResultados(rs) ==
    /\ resultados' = rs
    /\ relatorio' = Some(gerar_relatorio_consolidado(caminhos, rs))
    /\ excecao' = NoneOpt

\* gerar_relatorio_consolidado(caminhos_pdf) ends, docs what
\* processar_documento returns on each PDF for each order: the loop calls
\* processar_documento with no try around it, so the exception of a file
\* that cannot be opened ends the call
GerarRelatorioDos(docs) ==
    /\ relatorio = NoneOpt
    /\ excecao = NoneOpt
    /\ IF \E i \in 1..Len(caminhos) : processar_documento_levanta(caminhos[i])
       THEN /\ excecao' = Some(ExcecaoExtrairTexto)
            /\ UNCHANGED <<resultados, relatorio>>
       ELSE \E ordens \in [1..Len(caminhos) -> UNION {DOMAIN docs[p] : p \in 1..Len(docs)}] :
                /\ \A i \in 1..Len(caminhos) : ordens[i] \in DOMAIN docs[caminhos[i]]
                /\ RelatorioDosResultados([i \in 1..Len(caminhos) |-> docs[caminhos[i]][ordens[i]]])
    /\ UNCHANGED <<caminhos, varsCls, varsDados, varsSefaz, varsReceita, varsSessao, varsFgts, varsForm, varsTodos, varsPrev, varsLer, varsMoeda, varsNorm>>

\* gerar_relatorio_consolidado(caminhos_pdf) returns: processar_documento has
\* run on each path, the FGTS parser iterating its set in some order
GerarRelatorioConsolidado == GerarRelatorioDos(Documentos)

\* the contribuicoes of the Receita parser and of the report: a caller runs
\* processar_receita on a text and tables, or generates a report from PDFs
InitContribuicoes ==
    \/ /\ rTexto \in TextosRF
       /\ rTabelas \in SeqsAte(TabelasRF, MaxTabelasTotais)
       /\ rRes = NoneOpt
       /\ IdleCls /\ IdleDados /\ IdleSefaz /\ IdleSessao /\ IdleRelatorio /\ IdleFgts /\ IdleForm /\ IdleTodos /\ IdlePrev /\ IdleLer /\ IdleMoeda /\ IdleNorm
    \/ InitCaminhos

SpecContribuicoes ==
    InitContribuicoes /\ [][ProcessarReceita \/ GerarRelatorioConsolidado]_vars

\* the PDFs a caller of interpretar_todos uploads for each agency: a report,
\* a certificate or a statement of the agency, or the PDF with no text
PDFsTodosReceita == {1, 2, 8}

PDFsTodosSefaz == {5, 6, 7, 8}

\* a caller holds the three path arguments
InitTodos ==
    /\ tReceitaPdf \in CaminhosDe(PDFsTodosReceita)
    /\ tFgtsPdf \in CaminhosDe(PDFsFgts)
    /\ tSefazPdf \in CaminhosDe(PDFsTodosSefaz)
    /\ tRet = NoneOpt
    /\ IdleCls /\ IdleDados /\ IdleSefaz /\ IdleReceita /\ IdleSessao /\ IdleRelatorio /\ IdleFgts /\ IdleForm /\ IdlePrev /\ IdleLer /\ IdleMoeda /\ IdleNorm

\* interpretar_todos(receita_pdf, fgts_pdf, sefaz_pdf) returns
InterpretarTodos ==
    /\ tRet = NoneOpt
    /\ \E ordem \in OrdensDoCaminho(tFgtsPdf) :
           LET t == interpretar_todos(tReceitaPdf, tFgtsPdf, tSefazPdf, ordem)
           IN  /\ tRet' = Some(t.resultado)
               /\ chamadas' = t.chamadas
    /\ UNCHANGED <<tReceitaPdf, tFgtsPdf, tSefazPdf, varsCls, varsDados, varsSefaz, varsReceita, varsRelatorio, varsFgts, varsForm, varsPrev, varsLer, varsMoeda, varsNorm>>

SpecTodos == InitTodos /\ [][InterpretarTodos]_vars

\* the consolidated report: a caller generates a report from files
SpecRelatorio == InitCaminhos /\ [][GerarRelatorioConsolidado]_vars

\* a caller holds the paths of at most MaxPDFs files, the Receita reports
\* that name a Parcelamento Unificado among them
InitUnificado ==
    /\ caminhos \in SeqsAte(PDFsComUnificado, MaxPDFs)
    /\ resultados = <<>>
    /\ relatorio = NoneOpt
    /\ excecao = NoneOpt
    /\ IdleCls /\ IdleDados /\ IdleSefaz /\ IdleReceita /\ IdleSessao /\ IdleFgts /\ IdleForm /\ IdleTodos /\ IdlePrev /\ IdleLer /\ IdleMoeda /\ IdleNorm

SpecUnificado == InitUnificado /\ [][GerarRelatorioConsolidado]_vars

\* a caller holds the results of at most MaxResultados documents
InitPrevidencia ==
    /\ pResultados \in SeqsAte(ResultadosPrevidencia, MaxResultados)
    /\ pResumo = NoneOpt
    /\ IdleCls /\ IdleDados /\ IdleSefaz /\ IdleReceita /\ IdleSessao /\ IdleRelatorio /\ IdleFgts /\ IdleForm /\ IdleTodos /\ IdleLer /\ IdleMoeda /\ IdleNorm

\* consolidar_previdencia(resultados) returns
ConsolidarPrevidencia ==
    /\ pResumo = NoneOpt
    /\ pResumo' = Some(consolidar_previdencia(pResultados))
    /\ UNCHANGED <<pResultados, varsCls, varsDados, varsSefaz, varsReceita, varsSessao, varsRelatorio, varsFgts, varsForm, varsTodos, varsLer, varsMoeda, varsNorm>>

SpecPrevidencia == InitPrevidencia /\ [][ConsolidarPrevidencia]_vars

\* the user has chosen the uploads of the three fields
InitLer ==
    /\ lUploads \in {[receita |-> a, fgts |-> b, sefaz |-> c] :
                        a \in UploadsDe(PDFsTodosReceita), b \in UploadsDe(PDFsFgts),
                        c \in UploadsDe(PDFsTodosSefaz)}
    /\ lTmp = {}
    /\ lSaida = NoneOpt
    /\ lResultado = NoneOpt
    /\ IdleCls /\ IdleDados /\ IdleSefaz /\ IdleReceita /\ IdleSessao /\ IdleRelatorio /\ IdleFgts /\ IdleForm /\ IdleTodos /\ IdlePrev /\ IdleMoeda /\ IdleNorm

\* the user clicks "Ler PDFs e Extrair Dados" and the action ends
LerPdfs ==
    /\ lSaida = NoneOpt
    /\ \E falha \in FalhasDe(lUploads) :
       \E ordem \in (IF lUploads.fgts \in {NoneOpt, Some(0)} THEN {<<>>}
                     ELSE DOMAIN LidoFgts[lUploads.fgts[1]].dados_processados) :
           LET fim == ler_pdfs(lUploads, falha, ordem)
           IN  /\ lTmp' = fim.arquivos
               /\ lSaida' = Some(fim.saida)
               /\ lResultado' = fim.resultado
    /\ UNCHANGED <<lUploads, varsCls, varsDados, varsSefaz, varsReceita, varsSessao, varsRelatorio, varsFgts, varsForm, varsTodos, varsPrev, varsMoeda, varsNorm>>

SpecLer == InitLer /\ [][LerPdfs]_vars

\* a caller holds an amount of two decimals
InitMoeda ==
    /\ mValor \in {Some(v) : v \in ValoresMoeda}
    /\ mTexto = NoneOpt
    /\ mVolta = NoneOpt
    /\ IdleCls /\ IdleDados /\ IdleSefaz /\ IdleReceita /\ IdleSessao /\ IdleRelatorio /\ IdleFgts /\ IdleForm /\ IdleTodos /\ IdlePrev /\ IdleLer /\ IdleNorm

\* formatar_moeda_br(valor) returns
FormatarMoedaBr ==
    /\ mValor # NoneOpt
    /\ mTexto = NoneOpt
    /\ mTexto' = Some(formatar_moeda_br(mValor[1]))
    /\ UNCHANGED <<mValor, mVolta, varsCls, varsDados, varsSefaz, varsReceita, varsSessao, varsRelatorio, varsFgts, varsForm, varsTodos, varsPrev, varsLer, varsNorm>>

\* converter_valor_br_para_float(valor_str) returns
ConverterValorBrParaFloat ==
    /\ mTexto # NoneOpt
    /\ mVolta = NoneOpt
    /\ mVolta' = Some(converter_valor_br_para_float(mTexto[1]))
    /\ UNCHANGED <<mValor, mTexto, varsCls, varsDados, varsSefaz, varsReceita, varsSessao, varsRelatorio, varsFgts, varsForm, varsTodos, varsPrev, varsLer, varsNorm>>

\* an amount is formatted and the text converted back
SpecMoeda == InitMoeda /\ [][FormatarMoedaBr \/ ConverterValorBrParaFloat]_vars

\* a caller holds a text
InitConverter ==
    /\ mValor = NoneOpt
    /\ mTexto \in {Some(s) : s \in TextosDeValor}
    /\ mVolta = NoneOpt
    /\ IdleCls /\ IdleDados /\ IdleSefaz /\ IdleReceita /\ IdleSessao /\ IdleRelatorio /\ IdleFgts /\ IdleForm /\ IdleTodos /\ IdlePrev /\ IdleLer /\ IdleNorm

SpecConverter == InitConverter /\ [][ConverterValorBrParaFloat]_vars

\* a caller holds a competencia
InitNormalizar ==
    /\ nComp \in Competencias
    /\ nRes = NoneOpt
    /\ nDeNovo = NoneOpt
    /\ IdleCls /\ IdleDados /\ IdleSefaz /\ IdleReceita /\ IdleSessao /\ IdleRelatorio /\ IdleFgts /\ IdleForm /\ IdleTodos /\ IdlePrev /\ IdleLer /\ IdleMoeda

\* normalizar_competencia(comp) returns
NormalizarCompetencia ==
    /\ nRes = NoneOpt
    /\ nRes' = Some(normalizar_competencia(nComp))
    /\ UNCHANGED <<nComp, nDeNovo, varsCls, varsDados, varsSefaz, varsReceita, varsSessao, varsRelatorio, varsFgts, varsForm, varsTodos, varsPrev, varsLer, varsMoeda>>

\* normalizar_competencia returns on the value it returned
NormalizarDeNovo ==
    /\ nRes # NoneOpt
    /\ nRes[1] # NoneOpt
    /\ nDeNovo = NoneOpt
    /\ nDeNovo' = Some(normalizar_competencia(nRes[1][1]))
    /\ UNCHANGED <<nComp, nRes, varsCls, varsDados, varsSefaz, varsReceita, varsSessao, varsRelatorio, varsFgts, varsForm, varsTodos, varsPrev, varsLer, varsMoeda>>

SpecNormalizar == InitNormalizar /\ [][NormalizarCompetencia \/ NormalizarDeNovo]_vars

\* a caller holds the text and the tables of a statement with border-tax lines
InitFronteira ==
    /\ sTexto \in Textos(LinhasFronteira, MaxLinhasFronteira)
    /\ sTabelas \in TabelasAmostras
    /\ sRes = NoneOpt
    /\ IdleCls /\ IdleDados /\ IdleReceita /\ IdleSessao /\ IdleRelatorio /\ IdleFgts /\ IdleForm /\ IdleTodos /\ IdlePrev /\ IdleLer /\ IdleMoeda /\ IdleNorm

SpecFronteira == InitFronteira /\ [][ProcessarSefaz]_vars

\* a caller holds the text of a Receita report: the start of a SISPAR block
\* and the lines of the block
InitRegime ==
    /\ rTexto \in {<<LinhasParcelamentos[1]>> \o t : t \in Textos(LinhasRegime, MaxLinhasRegime)}
    /\ rTabelas = <<>>
    /\ rRes = NoneOpt
    /\ IdleCls /\ IdleDados /\ IdleSefaz /\ IdleSessao /\ IdleRelatorio /\ IdleFgts /\ IdleForm /\ IdleTodos /\ IdlePrev /\ IdleLer /\ IdleMoeda /\ IdleNorm

SpecRegime == InitRegime /\ [][ProcessarReceita \/ AjustesManuaisSispar]_vars

\* a session holds a SEFAZ PDF whose text has border-tax lines and no table,
\* and an accumulator no parser wrote yet
InitPendencias ==
    /\ sTexto \in Textos(LinhasFronteira, MaxLinhasFronteira)
    /\ sTabelas = <<>>
    /\ sRes = NoneOpt
    /\ IdleCls /\ IdleDados /\ IdleReceita /\ IdleSessao /\ IdleRelatorio /\ IdleFgts /\ IdleForm /\ IdleTodos /\ IdlePrev /\ IdleLer /\ IdleMoeda /\ IdleNorm

\* interpretar_pdf_sefaz(caminho_pdf, resultado) returns, the PDF at
\* caminho_pdf holding the text and the tables of the session
InterpretarPdfSefazDoTexto ==
    /\ chamadas = <<>>
    /\ resultado' = interpretar_pdf_sefaz(ler_pdf_sefaz([nome |-> "sf.pdf",
            texto |-> sTexto, tabelas |-> sTabelas]), resultado)
    /\ chamadas' = Append(chamadas, [parser |-> "sefaz", pdf |-> 0, ordem |-> <<>>])
    /\ UNCHANGED <<dados, dadosAntes, mesclado, retTem, varsCls, varsSefaz, varsReceita, varsRelatorio, varsFgts, varsForm, varsTodos, varsPrev, varsLer, varsMoeda, varsNorm>>

SpecPendencias == InitPendencias /\ [][InterpretarPdfSefazDoTexto]_vars

\* ------------------------------------------------------------------------
\* Claims
\* ------------------------------------------------------------------------
\* the text holds (case-insensitively) some keyword of the list
TemKeyword(kws, texto) == \E i \in 1..Len(kws) : text_in(kws[i], text_lower(texto))

\* k is the first keyword of the list, in list order, that the text holds
PrimeiraEmOrdem(kws, texto, k) ==
    \E i \in 1..Len(kws) :
        /\ kws[i] = k
        /\ text_in(kws[i], text_lower(texto))
        /\ \A j \in 1..(i - 1) : ~text_in(kws[j], text_lower(texto))

\* C5: classify is a first-match priority function over keyword presence:
\* receita_federal whenever a Receita keyword occurs, whatever else occurs;
\* otherwise fgts if an FGTS keyword occurs; otherwise sefaz if a SEFAZ keyword
\* occurs; otherwise desconhecido with the first debug_lines lines attached.
\* The reason names the first matching keyword in list order and
\* debug_text_head is set only for desconhecido.
C5_ClassifyPrimeiroMatch ==
    cRes # NoneOpt =>
        LET res == cRes[1]
            rf == TemKeyword(KEYWORDS_RECEITA, cTexto)
            fg == TemKeyword(KEYWORDS_FGTS, cTexto)
            sf == TemKeyword(KEYWORDS_SEFAZ, cTexto)
        IN  /\ rf => /\ res.doc_type = "receita_federal"
                     /\ PrimeiraEmOrdem(KEYWORDS_RECEITA, cTexto, res.confidence_reason)
            /\ (~rf /\ fg) =>
                     /\ res.doc_type = "fgts"
                     /\ PrimeiraEmOrdem(KEYWORDS_FGTS, cTexto, res.confidence_reason)
            /\ (~rf /\ ~fg /\ sf) =>
                     /\ res.doc_type = "sefaz"
                     /\ PrimeiraEmOrdem(KEYWORDS_SEFAZ, cTexto, res.confidence_reason)
            /\ (~rf /\ ~fg /\ ~sf) =>
                     /\ res.doc_type = "desconhecido"
                     /\ res.debug_text_head =
                            Some(SubSeq(cTexto, 1, Min(cDebugLines, Len(cTexto))))
            /\ (res.debug_text_head # NoneOpt) <=> (res.doc_type = "desconhecido")

\* C5 witness: a text holding a Receita keyword and an FGTS keyword was
\* classified, and the keyword named is not the last one of the list it holds
C5_Witness ==
    /\ cRes # NoneOpt
    /\ TemKeyword(KEYWORDS_RECEITA, cTexto)
    /\ TemKeyword(KEYWORDS_FGTS, cTexto)
    /\ cRes[1].doc_type = "receita_federal"
    /\ cRes[1].confidence_reason = KEYWORDS_RECEITA[2]
    /\ text_in(KEYWORDS_RECEITA[9], text_lower(cTexto))

\* a field of the accumulator is populated: a scalar that is neither None nor
\* blank, a list that is not empty, a nested dict that is not empty
Populado(self, campo) ==
    IF campo \in Range(CamposSimples)
    THEN self[campo] # NoneOpt /\ \E i \in 1..Len(self[campo][1]) : self[campo][1][i] \notin Whitespace
    ELSE IF campo \in Range(CamposLista) THEN self[campo] # <<>>
    ELSE self[campo] # EmptyDict

\* key k is in both dicts with the same value, or in neither
MesmaChave(d1, d2, k) ==
    /\ (k \in DOMAIN d1) <=> (k \in DOMAIN d2)
    /\ (k \in DOMAIN d1) => d1[k] = d2[k]

\* C2: mesclar_no_dados changes a key of dados only when the accumulator's
\* field of that name is populated: a scalar that is None or blank, an empty
\* list and an empty nested dict leave the key as it was, and so is every key
\* that is not a field of the accumulator.
C2_MesclarSoPopulados ==
    mesclado =>
        \A k \in (DOMAIN dados) \cup (DOMAIN dadosAntes) \cup Campos :
            (k \notin Campos \/ ~Populado(resultado, k)) => MesmaChave(dados, dadosAntes, k)

\* C2 witness: a merge has returned that wrote one key and left alone the
\* form's value under a key whose scalar field is blank (" ")
C2_Witness ==
    /\ mesclado
    /\ dados # dadosAntes
    /\ \E i \in 1..Len(CamposSimples) :
          /\ resultado[CamposSimples[i]] = Some(<<" ">>)
          /\ CamposSimples[i] \in DOMAIN dadosAntes
          /\ dados[CamposSimples[i]] = Some(ValorFormulario)

\* C4: tem_algum_dado() returns true exactly when at least one field is
\* populated: one of the seven scalars is non-blank, one of the three legacy
\* lists is non-empty, or one of the three nested records (sefaz_estadual,
\* fgts, receita_federal) is non-empty.
C4_TemAlgumDadoExato ==
    retTem # NoneOpt => (retTem[1] <=> \E c \in Campos : Populado(resultado, c))

\* the phrase occurs in the text, whatever the case of its letters and
\* however many spaces separate its words
FraseOcorre(frase, texto) ==
    LET rx == [i \in 1..Len(frase) |->
                  IF frase[i] = " " THEN Ch({" "}, 1, -1)
                  ELSE Ch({lower_char(frase[i]), upper_char(frase[i])}, 1, 1)]
    IN  \E l \in 1..Len(texto) : re_search(<<rx>>, texto[l]).alt # 0

AlgumaFraseOcorre(frases, texto) == \E i \in 1..Len(frases) : FraseOcorre(frases[i], texto)

\* processar_sefaz has returned a result
SefazRetornou == sRes # NoneOpt /\ ~sRes[1].raised

\* C6: whenever processar_sefaz returns, situacao is one of REGULAR,
\* IRREGULAR, INDETERMINADO (never None) and follows strict priority:
\* IRREGULAR if any irregularity phrase occurs in the text, even when
\* regularity phrases also occur; otherwise REGULAR if any regularity phrase
\* occurs; otherwise INDETERMINADO, with a diagnostic reason as the first
\* entry of motivos.
C6_SituacaoPrioridade ==
    SefazRetornou =>
        LET res == sRes[1]
            irregular == AlgumaFraseOcorre(termos_irregular, sTexto)
            regular == AlgumaFraseOcorre(termos_regular, sTexto)
        IN  /\ res.situacao \in {"REGULAR", "IRREGULAR", "INDETERMINADO"}
            /\ irregular => res.situacao = "IRREGULAR"
            /\ (~irregular /\ regular) => res.situacao = "REGULAR"
            /\ (~irregular /\ ~regular) =>
                   /\ res.situacao = "INDETERMINADO"
                   /\ Len(res.motivos) >= 1
                   /\ str_in(<<"n","a~","o"," ","c","o","r","r","e","s","p","o","n","d","e">>,
                           str_lower(res.motivos[1]))

\* C6 witness: a call has returned IRREGULAR for a text in which a regularity
\* phrase occurs too, one written with two spaces between its words
C6_Witness ==
    /\ SefazRetornou
    /\ AlgumaFraseOcorre(termos_irregular, sTexto)
    /\ FraseOcorre(<<"s","i","t","u","a","c,","a~","o"," ","r","e","g","u","l","a","r">>, sTexto)
    /\ ~text_in(<<"s","i","t","u","a","c,","a~","o"," ","r","e","g","u","l","a","r">>,
            text_lower(sTexto))
    /\ sRes[1].situacao = "IRREGULAR"

\* no table of the document has a header that suggests a debt listing
SemTabelaDeDebitos ==
    \A i \in 1..Len(sTabelas) :
        sTabelas[i] = <<>> \/
        \A c \in 1..Len(sTabelas[i][1]) :
            \A termo \in TermosCabecalhoDebito :
                ~str_in(termo, str_upper(sTabelas[i][1][c]))

\* no debt item was extracted
SemItens(res) ==
    /\ res.detalhes.ipva = <<>>
    /\ res.detalhes.fronteira.itens = <<>>
    /\ res.detalhes.debitos_fiscais.itens = <<>>

\* C7: for every input that contains the certificate phrase, a regularity
\* phrase (e.g. "situacao regular", "nada consta", "sem pendencias") and no
\* table whose header suggests a debt listing, processar_sefaz returns
\* situacao = REGULAR, tipo_documento = certidao, a non-empty observacao and
\* empty ipva, fronteira and debitos_fiscais item lists.
C7_CertidaoRegular ==
    (/\ sRes # NoneOpt
     /\ FraseOcorre(<<"c","e","r","t","i","d","a~","o"," ","d","e"," ","r","e","g","u","l","a",
             "r","i","d","a","d","e"," ","f","i","s","c","a","l">>, sTexto)
     /\ AlgumaFraseOcorre(termos_regular, sTexto)
     /\ SemTabelaDeDebitos)
    => /\ ~sRes[1].raised
       /\ sRes[1].situacao = "REGULAR"
       /\ sRes[1].tipo_documento = "certidao"
       /\ sRes[1].observacao # NoneOpt
       /\ sRes[1].observacao # Some(<<>>)
       /\ SemItens(sRes[1])

\* C8: in every result processar_sefaz returns, if tipo_documento = certidao
\* and no debt item was extracted (the ipva, fronteira and debitos_fiscais
\* item lists all empty), situacao is not IRREGULAR.
C8_CertidaoSemDebitos ==
    (SefazRetornou /\ sRes[1].tipo_documento = "certidao" /\ SemItens(sRes[1]))
    => sRes[1].situacao # "IRREGULAR"

\* the two records were made from the same debt row
MesmaLinha(a, b) ==
    a.codigo = b.codigo /\ a.competencia = b.competencia /\ a.descricao = b.descricao

ChavesTributos == {"IRRF", "IRLS", "PIS", "COFINS"}

\* C9: in processar_receita every candidate debt row is recorded under at
\* most one classification: it is appended either to contribuicoes.detalhes
\* or to one debitos_gerais list, never to both, and never to two
\* debitos_gerais lists.
C9_UmaClassificacaoPorLinha ==
    rRes # NoneOpt =>
        LET detalhes == rRes[1].contribuicoes.detalhes
            gerais == rRes[1].debitos_gerais
        IN  /\ \A i \in 1..Len(detalhes) : \A t \in ChavesTributos :
                  \A j \in 1..Len(gerais[t]) : ~MesmaLinha(detalhes[i], gerais[t][j])
            /\ \A t1, t2 \in ChavesTributos :
                  t1 # t2 => \A i \in 1..Len(gerais[t1]) : \A j \in 1..Len(gerais[t2]) :
                                 ~MesmaLinha(gerais[t1][i], gerais[t2][j])

\* the scalar fields the parsers share
CamposEscalaresCompartilhados ==
    {"requerente", "cnpj", "data_consulta_rf", "data_consulta_sefaz", "data_consulta_fgts"}

\* the field holds a str with a character that is not white space
nao_branco(v) == v # NoneOpt /\ strip_nao_vazio(v[1])

\* C1: for any sequence of parser calls (Receita, FGTS, SEFAZ, in any order
\* and number) on one ResultadoParsers accumulator, once a shared scalar
\* field (requerente, cnpj, data_consulta_rf, data_consulta_sefaz,
\* data_consulta_fgts) holds a non-blank value, no later parser call changes
\* it: neither a blank nor a different non-blank value parsed from a later
\* document replaces it.
C1_PrimeiroValorFica ==
    [][\A c \in CamposEscalaresCompartilhados :
           nao_branco(resultado[c]) => resultado'[c] = resultado[c]]_vars

\* the FGTS parser was called second, on a document that names another CNPJ
\* and another company than the accumulator holds, and on which the Receita
\* date search finds nothing; the accumulator kept what it held
C1_Witness ==
    /\ Len(chamadas) = 2
    /\ chamadas[1].parser = "receita_federal"
    /\ chamadas[2].parser = "fgts"
    /\ LET antes == LidoReceita[chamadas[1].pdf]
           lido == LidoFgts[chamadas[2].pdf]
       IN  /\ nao_branco(antes.cnpj) /\ nao_branco(lido.cnpj) /\ lido.cnpj # antes.cnpj
           /\ nao_branco(antes.requerente) /\ nao_branco(lido.razao_social)
           /\ lido.razao_social # antes.requerente
           /\ nao_branco(antes.data)
           /\ resultado.cnpj = antes.cnpj
           /\ resultado.requerente = antes.requerente
           /\ resultado.data_consulta_rf = antes.data
           /\ resultado.data_consulta_fgts = lido.data_consulta

\* the accumulator after the call ch on the accumulator res
apos_chamada(ch, res) ==
    IF ch.parser = "receita_federal" THEN interpretar_pdf_receita(LidoReceita[ch.pdf], res)
    ELSE IF ch.parser = "fgts" THEN interpretar_pdf_fgts(LidoFgts[ch.pdf], res, ch.ordem)
    ELSE interpretar_pdf_sefaz(LidoSefaz[ch.pdf], res)

\* the nested record of the agency of a parser
registro_de(parser) ==
    IF parser = "receita_federal" THEN "receita_federal"
    ELSE IF parser = "fgts" THEN "fgts"
    ELSE "sefaz_estadual"

\* C3: when two documents of the same agency are parsed in succession into
\* the same accumulator, the agency's nested record after the second parse
\* is exactly the record the second parse alone would have produced on an
\* empty accumulator: no debt item, count or total from the first parse
\* survives in receita_federal, fgts or sefaz_estadual.
C3_SegundoParseSubstitui ==
    (/\ Len(chamadas) = 2
     /\ chamadas[1].parser = chamadas[2].parser
     /\ chamadas[1].pdf # chamadas[2].pdf)
    => resultado[registro_de(chamadas[2].parser)]
           = apos_chamada(chamadas[2], ResultadoParsers)[registro_de(chamadas[2].parser)]

\* the sum of the amounts of the first n items of detalhes that are of the
\* category, an unset amount counting as 0
RECURSIVE total_dos_itens(_, _, _)
total_dos_itens(detalhes, categoria, n) ==
    IF n = 0 THEN 0
    ELSE total_dos_itens(detalhes, categoria, n - 1)
         + (IF detalhes[n].categoria = categoria /\ detalhes[n].valor # NoneOpt
            THEN detalhes[n].valor[1] ELSE 0)

\* the totals of a dict contribuicoes agree with its detalhes
TotaisCoerentes(c) ==
    /\ c.seguro_total = total_dos_itens(c.detalhes, "seguro", Len(c.detalhes))
    /\ c.patronal_total = total_dos_itens(c.detalhes, "patronal", Len(c.detalhes))
    /\ c.terceiros_total = total_dos_itens(c.detalhes, "terceiros", Len(c.detalhes))
    /\ c.total_geral = c.seguro_total + c.patronal_total + c.terceiros_total

\* C10: in every record returned by processar_receita (called directly, or
\* through processar_documento on a PDF of the report), and in the
\* contribuicoes section of every consolidated report, each category total
\* (seguro_total, patronal_total, terceiros_total) equals the sum of the
\* amounts of the detail items of that category present in detalhes, an
\* unset amount counting as 0, and total_geral equals the sum of the three
\* category totals.
C10_TotaisIguaisAosDetalhes ==
    /\ rRes # NoneOpt => TotaisCoerentes(rRes[1].contribuicoes)
    /\ relatorio # NoneOpt =>
           /\ TotaisCoerentes(relatorio[1].receita_federal.contribuicoes)
           /\ \A i \in 1..Len(resultados) :
                  (/\ resultados[i].resultado # NoneOpt
                   /\ resultados[i].resultado[1].receita_federal # EmptyDict)
                      => TotaisCoerentes(
                             resultados[i].resultado[1].receita_federal[1].contribuicoes)

\* a report of two PDFs has a period; its contribuicoes, taken from a Receita
\* PDF and filtered, hold a detail with no amount and no competencia next to
\* details of the three categories, and every total is positive
C10_Witness ==
    /\ relatorio # NoneOpt
    /\ Len(caminhos) = 2
    /\ truthy_str(relatorio[1].periodo.inicio)
    /\ relatorio[1].periodo.inicio # relatorio[1].periodo.fim
    /\ LET c == relatorio[1].receita_federal.contribuicoes
       IN  /\ c.seguro_total > 0 /\ c.patronal_total > 0 /\ c.terceiros_total > 0
           /\ c.total_geral > c.patronal_total
           /\ \E i \in 1..Len(c.detalhes) :
                  c.detalhes[i].valor = NoneOpt /\ c.detalhes[i].competencia = NoneOpt
           /\ resultados[2].resultado[1].receita_federal[1].contribuicoes = c

\* the text handed to processar_fgts holds, in any case of letters, the name
\* of the certificate and a phrase of regularity
TemFrasesDeRegularidade ==
    /\ \/ text_in(<<"c","e","r","t","i","f","i","c","a","d","o"," ","d","e"," ","r","e","g","u",
            "l","a","r","i","d","a","d","e"," ","d","o"," ","f","g","t","s">>, text_lower(fTexto))
       \/ text_in(<<"c","r","f">>, text_lower(fTexto))
    /\ text_in(<<"s","i","t","u","a","c,","a~","o"," ","r","e","g","u","l","a","r">>,
            text_lower(fTexto))

\* C13: processar_fgts returns situacao = REGULAR with an empty debitos list
\* and no observation for every text that contains the certificate phrase and
\* a regularity phrase; for every other text it returns situacao = IRREGULAR;
\* situacao is never None on return.
C13_RegularSoComAsDuasFrases ==
    fRes # NoneOpt =>
        /\ fRes[1].situacao # None
        /\ IF TemFrasesDeRegularidade
           THEN fRes[1] = [situacao |-> "REGULAR", debitos |-> <<>>, observacao |-> NoneOpt]
           ELSE fRes[1].situacao = "IRREGULAR"

\* processar_fgts has returned REGULAR and no debt on a text that holds the
\* two phrases and, in a section of pendencies, a competencia
C13_Witness ==
    /\ fRes # NoneOpt
    /\ TemFrasesDeRegularidade
    /\ competencias_encontradas(<<FgtsLinhas[3]>>) # {}
    /\ \E i \in 1..Len(fTexto) : fTexto[i] = FgtsLinhas[3]
    /\ fRes[1].situacao = "REGULAR" /\ fRes[1].debitos = <<>>

\* the tokens MM/AAAA of the str in which processar_fgts looks for competencias
TokensMesAno ==
    seja(texto_busca_fgts(juntar(fTexto)), LAMBDA busca :
        tokens_dos_matches(busca, re_finditer(<<RxMesAno>>, busca)))

\* C14: for an irregular FGTS text, the pending list returned by
\* processar_fgts is de-duplicated on the normalized competency: no two
\* entries carry the same YYYY-MM value, and a pendency window with exactly
\* two distinct MM/YYYY tokens yields exactly two entries, also when the
\* window mixes MM/YYYY tokens with bare 4-digit years that normalize to the
\* same value.
C14_SemCompetenciaRepetida ==
    (fRes # NoneOpt /\ fRes[1].situacao = "IRREGULAR") =>
        /\ \A i, j \in 1..Len(fRes[1].debitos) :
               fRes[1].debitos[i].competencia = fRes[1].debitos[j].competencia => i = j
        /\ Cardinality(TokensMesAno) = 2 => Len(fRes[1].debitos) = 2

\* the fields of a parcelamento the Receita document does not state
ManuaisNaoPreenchidos(parc) ==
    /\ parc.quantidade_parcelas = NoneOpt
    /\ parc.valor_total_parcelado = NoneOpt
    /\ parc.valor_parcela = NoneOpt
    /\ parc.competencias = <<>>
    /\ parc.necessita_consulta_manual_pgfn
    /\ ~parc.conferido_pelo_usuario

\* C11: whenever processar_receita detects a SISPAR anchor, it produces a
\* parcelamento whose quantidade_parcelas, valor_total_parcelado and
\* valor_parcela are unset and whose competencias list is empty, with
\* necessita_consulta_manual_pgfn = true and conferido_pelo_usuario = false,
\* whatever else the text contains; these three fields only ever receive a
\* value from the reviewer's form input, never from the document.
C11_SisparSoPeloFormulario ==
    /\ (rRes # NoneOpt /\ rRes[1].sispar.tem_sispar) =>
           /\ Len(rRes[1].sispar.parcelamentos) = 1
           /\ ManuaisNaoPreenchidos(rRes[1].sispar.parcelamentos[1])
    /\ (rRes # NoneOpt /\ ~rRes[1].sispar.tem_sispar) => rRes[1].sispar.parcelamentos = <<>>
    /\ formReceita # NoneOpt =>
           \A idx \in 1..Len(formReceita[1].sispar.parcelamentos) :
               /\ formReceita[1].sispar.parcelamentos[idx].quantidade_parcelas
                      = sessionState[1][idx].qtd
               /\ formReceita[1].sispar.parcelamentos[idx].valor_total_parcelado
                      = sessionState[1][idx].valor_total
               /\ formReceita[1].sispar.parcelamentos[idx].valor_parcela
                      = sessionState[1][idx].valor_parcela

\* processar_receita has returned a parcelamento for a text that states a
\* number of parcelas, an amount and a limit of months after the anchor of
\* SISPAR, and the reviewer has typed other values in the form
C11_Witness ==
    /\ rRes # NoneOpt /\ formReceita # NoneOpt
    /\ rTexto = <<LinhasParcelamentos[8], LinhasParcelamentos[3]>>
    /\ rRes[1].sispar.tem_sispar
    /\ rRes[1].sispar.parcelamentos[1].limite_maximo_meses = Some(60)
    /\ rRes[1].sispar.parcelamentos[1].regime = "PREVIDENCIARIO"
    /\ ManuaisNaoPreenchidos(rRes[1].sispar.parcelamentos[1])
    /\ formReceita[1].sispar.parcelamentos[1].quantidade_parcelas = Some(12)
    /\ formReceita[1].sispar.parcelamentos[1].valor_total_parcelado # NoneOpt
    /\ formReceita[1].sispar.parcelamentos[1].valor_parcela # NoneOpt

\* the text holds the anchor of an instalment plan in arrears, "Parcelas em
\* Atraso: 1" and "Valor em Atraso: 571,90"
TextoComAtraso ==
    \A l \in 1..3 : \E i \in 1..Len(rTexto) : rTexto[i] = TextoSiefparAtraso[l]

\* the text reports no pendencies
TextoSemPendencias == rTexto = <<LinhasParcelamentos[7]>>

\* C12: for a Receita text containing an installment-plan pendency anchor
\* with 'Parcelas em Atraso: N' and 'Valor em Atraso: V', processar_receita
\* returns simples_nacional.parcelamento with tem_parcelamento = true,
\* parcelas_atraso = N and valor_atraso = V, and
\* simples_nacional.tem_debito_em_aberto = true; for a text that reports no
\* pendencies, simples_nacional.tem_debito_em_aberto is present and false.
C12_ParcelamentoEmAtraso ==
    rRes # NoneOpt =>
        /\ TextoComAtraso =>
               /\ rRes[1].simples_nacional.parcelamento.tem_parcelamento
               /\ rRes[1].simples_nacional.parcelamento.parcelas_atraso = Some(1)
               /\ "valor_atraso" \in DOMAIN rRes[1].simples_nacional.parcelamento
               /\ rRes[1].simples_nacional.parcelamento.valor_atraso = Some(57190)
               /\ "tem_debito_em_aberto" \in DOMAIN rRes[1].simples_nacional
               /\ rRes[1].simples_nacional.tem_debito_em_aberto
        /\ TextoSemPendencias =>
               /\ "tem_debito_em_aberto" \in DOMAIN rRes[1].simples_nacional
               /\ ~rRes[1].simples_nacional.tem_debito_em_aberto

\* processar_receita has returned on the text of the plan in arrears: the
\* plan and the number of parcelas are in the dict
C12_ComAtrasoProcessado ==
    /\ rRes # NoneOpt /\ TextoComAtraso
    /\ rRes[1].simples_nacional.parcelamento.tem_parcelamento
    /\ rRes[1].simples_nacional.parcelamento.parcelas_atraso = Some(1)

\* ------------------------------------------------------------------------
\* C19
\* ------------------------------------------------------------------------
\* the parsers interpretar_todos has to attempt, in the order of the code
ParsersValidos ==
    SelectSeq(<<[parser |-> "receita_federal", caminho |-> tReceitaPdf],
                [parser |-> "fgts", caminho |-> tFgtsPdf],
                [parser |-> "sefaz", caminho |-> tSefazPdf]>>,
              LAMBDA a : a.caminho # NoneOpt /\ a.caminho[1].existe /\ a.caminho[1].is_file)

\* the path holds a PDF the parser can read something in
Legivel(caminho) ==
    /\ caminho # NoneOpt /\ caminho[1].existe /\ caminho[1].is_file
    /\ caminho[1].pdf # 0
    /\ PDFs[caminho[1].pdf].texto # <<>>

\* C19: when interpretar_todos has returned, the parsers called are exactly
\* those whose path is a valid file, each once, in the order Receita, FGTS,
\* SEFAZ, whatever the earlier ones read (nothing, or a file that cannot be
\* opened); and the accumulator returned holds the data of each parser that
\* read its PDF: the processed Receita dict, the FGTS situation of the
\* certificate, and the SEFAZ record of the statement
C19_TodosOsParsersNaOrdem ==
    tRet # NoneOpt =>
        /\ Len(chamadas) = Len(ParsersValidos)
        /\ \A i \in 1..Len(chamadas) :
               /\ chamadas[i].parser = ParsersValidos[i].parser
               /\ chamadas[i].pdf = ParsersValidos[i].caminho[1].pdf
        /\ Legivel(tReceitaPdf) =>
               tRet[1].receita_federal
                   = Dict(processar_receita(PDFs[tReceitaPdf[1].pdf].texto,
                                            PDFs[tReceitaPdf[1].pdf].tabelas))
        /\ Legivel(tFgtsPdf) =>
               /\ tRet[1].fgts # EmptyDict
               /\ tRet[1].fgts[1].crf_detalhes.situacao_atual
                      = (IF fgts_regular(PDFs[tFgtsPdf[1].pdf].texto) THEN "REGULAR"
                         ELSE "IRREGULAR")
               /\ tRet[1].bloco_fgts # NoneOpt
        /\ Legivel(tSefazPdf) =>
               /\ tRet[1].sefaz_estadual # EmptyDict
               /\ "dados_processados" \in DOMAIN tRet[1].sefaz_estadual[1]
                      \/ "erro_parser" \in DOMAIN tRet[1].sefaz_estadual[1].mensagens_sistema

\* the Receita file cannot be opened, the FGTS PDF has no text, and the SEFAZ
\* statement was still parsed into the accumulator returned
C19_Witness ==
    /\ tRet # NoneOpt
    /\ tReceitaPdf = Some(Corrompido)
    /\ tFgtsPdf = Some(Arquivo(8))
    /\ tSefazPdf = Some(Arquivo(6))
    /\ Len(chamadas) = 3
    /\ tRet[1].bloco_receita_federal # NoneOpt
    /\ tRet[1].receita_federal = EmptyDict
    /\ "dados_processados" \in DOMAIN tRet[1].sefaz_estadual[1]

\* ------------------------------------------------------------------------
\* C20
\* ------------------------------------------------------------------------
\* the observation the report holds for a document with no text
ObservacaoSemTexto == <<"D","o","c","u","m","e","n","t","o"," ","d","e","s","c","o","n","h","e",
        "c","i","d","o",":"," ">> \o ErroExtrairTexto

\* the text of the file of path p cannot be extracted: the file cannot be
\* opened, or it has no text
SemTextoExtraido(p) == extrair_texto_pdf_levanta(p) \/ extrair_texto_pdf(PDFs[p]) = <<>>

\* C20: when gerar_relatorio_consolidado has ended, it has returned a report
\* (no exception ended it), and the report holds as many observations "no
\* text could be extracted" as there are files whose text cannot be
\* extracted (no text, or the extraction itself failing)
C20_ExtracaoNaoFatal ==
    (relatorio # NoneOpt \/ excecao # NoneOpt) =>
        /\ relatorio # NoneOpt
        /\ excecao = NoneOpt
        /\ Cardinality({i \in 1..Len(relatorio[1].observacoes_gerais) :
                            relatorio[1].observacoes_gerais[i] = ObservacaoSemTexto})
               = Cardinality({i \in 1..Len(caminhos) : SemTextoExtraido(caminhos[i])})

\* the part of C20 that holds: a file with no text, next to a Receita report
\* with a contribution, is one observation of a report that consolidates the
\* other document
C20_SemTextoRelatado ==
    /\ relatorio # NoneOpt
    /\ caminhos = <<8, 1>>
    /\ relatorio[1].observacoes_gerais = <<ObservacaoSemTexto>>
    /\ Len(relatorio[1].receita_federal.contribuicoes.detalhes) = 1

\* the failing case of C20: one of the files cannot be opened and the call
\* ends with the exception, no report for the Receita document next to it
C20_ExtracaoFalhaAborta ==
    /\ caminhos = <<1, 0>>
    /\ excecao = Some(ExcecaoExtrairTexto)
    /\ relatorio = NoneOpt

\* ------------------------------------------------------------------------
\* C15
\* ------------------------------------------------------------------------
\* the competencies of the Simples Nacional debts and of the IRRF, IRLS, PIS
\* and COFINS debts of one result of processar_documento
CompetenciasSimplesETributos(doc) ==
    IF doc.erro # NoneOpt \/ doc.resultado = NoneOpt THEN <<>>
    ELSE IF doc.resultado[1].receita_federal = EmptyDict THEN <<>>
    ELSE LET rf == doc.resultado[1].receita_federal[1]
         IN  extrair_competencias_de_lista(rf.simples_nacional.debitos)
             \o extrair_competencias_de_lista(rf.debitos_gerais.IRRF)
             \o extrair_competencias_de_lista(rf.debitos_gerais.IRLS)
             \o extrair_competencias_de_lista(rf.debitos_gerais.PIS)
             \o extrair_competencias_de_lista(rf.debitos_gerais.COFINS)

\* the normalized competencies of every item of every agency record of the
\* results
CompetenciasDeTodosOsItens ==
    LET de(doc) == Range(competencias_do_resultado(doc))
                       \cup Range(CompetenciasSimplesETributos(doc))
        todas == UNION {de(resultados[i]) : i \in 1..Len(resultados)}
    IN  {normalizar_competencia(c)[1] : c \in {d \in todas : normalizar_competencia(d) # NoneOpt}}

\* C15: the period of the report is unset when no item of the results has a
\* competency; otherwise inicio and fim are competencies of items and every
\* item's normalized competency lies between them
C15_PeriodoCobreTodosOsItens ==
    relatorio # NoneOpt =>
        IF CompetenciasDeTodosOsItens = {}
        THEN relatorio[1].periodo = [inicio |-> NoneOpt, fim |-> NoneOpt]
        ELSE /\ relatorio[1].periodo.inicio # NoneOpt
             /\ relatorio[1].periodo.fim # NoneOpt
             /\ relatorio[1].periodo.inicio[1] \in CompetenciasDeTodosOsItens
             /\ relatorio[1].periodo.fim[1] \in CompetenciasDeTodosOsItens
             /\ \A c \in CompetenciasDeTodosOsItens :
                    /\ str_le(relatorio[1].periodo.inicio[1], c)
                    /\ str_le(c, relatorio[1].periodo.fim[1])

\* the failing case of C15: the Receita report rf2.pdf holds a contribution
\* of 02/2024 and an IRRF debt of 01/2024, and the period starts at 2024-02
C15_TributoForaDoPeriodo ==
    /\ relatorio # NoneOpt
    /\ caminhos = <<2>>
    /\ relatorio[1].periodo.inicio = Some(<<"2","0","2","4","-","0","2">>)
    /\ <<"2","0","2","4","-","0","1">> \in CompetenciasDeTodosOsItens

\* the part of C15 that holds: contributions, SEFAZ items and FGTS pending
\* competencies are covered
C15_PeriodoDeTresOrgaos ==
    /\ relatorio # NoneOpt
    /\ caminhos = <<4, 6>>
    /\ relatorio[1].periodo.inicio # NoneOpt
    /\ relatorio[1].periodo.inicio # relatorio[1].periodo.fim

\* ------------------------------------------------------------------------
\* C16
\* ------------------------------------------------------------------------
\* the Receita dict the report's Receita sections were written from: that of
\* the last Receita document consolidated
UltimaReceita ==
    LET consolidados ==
            {i \in 1..Len(resultados) :
                /\ resultados[i].erro = NoneOpt
                /\ resultados[i].resultado # NoneOpt
                /\ resultados[i].doc_type = "receita_federal"
                /\ resultados[i].resultado[1].receita_federal # EmptyDict}
    IN  IF consolidados = {} THEN NoneOpt
        ELSE Some(resultados[CHOOSE i \in consolidados : \A j \in consolidados : j <= i]
                      .resultado[1].receita_federal[1])

\* the report has a period
PeriodoConhecido ==
    relatorio[1].periodo.inicio # NoneOpt /\ relatorio[1].periodo.fim # NoneOpt

\* the item has no competency, or its normalized competency lies in the
\* period of the report
SemCompetenciaOuNoPeriodo(item) ==
    \/ item.competencia = NoneOpt
    \/ item.competencia = Some(<<>>)
    \/ /\ normalizar_competencia(item.competencia[1]) # NoneOpt
       /\ str_le(relatorio[1].periodo.inicio[1], normalizar_competencia(item.competencia[1])[1])
       /\ str_le(normalizar_competencia(item.competencia[1])[1], relatorio[1].periodo.fim[1])

\* the items the report has to retain
Retidos(itens) ==
    IF PeriodoConhecido THEN SelectSeq(itens, SemCompetenciaOuNoPeriodo) ELSE itens

\* C16: in a report with a Receita document, each Receita detail list
\* (contributions, Simples debts, IRRF, IRLS, PIS and COFINS debts) holds, in
\* order, exactly the parser's items that lie in the period or lack a
\* competency when the period is known, and all of them when it is not; with
\* a period the category totals are the sums over the retained details, and
\* without one they are the parser's totals
C16_ListasFiltradasPeloPeriodo ==
    (relatorio # NoneOpt /\ UltimaReceita # NoneOpt) =>
        LET rf_data == UltimaReceita[1]
            rf == relatorio[1].receita_federal
        IN  /\ rf.contribuicoes.detalhes = Retidos(rf_data.contribuicoes.detalhes)
            /\ rf.simples.debitos = Retidos(rf_data.simples_nacional.debitos)
            /\ rf.tributos.irrf = Retidos(rf_data.debitos_gerais.IRRF)
            /\ rf.tributos.irls = Retidos(rf_data.debitos_gerais.IRLS)
            /\ rf.tributos.pis = Retidos(rf_data.debitos_gerais.PIS)
            /\ rf.tributos.cofins = Retidos(rf_data.debitos_gerais.COFINS)
            /\ IF PeriodoConhecido
               THEN TotaisCoerentes(rf.contribuicoes)
               ELSE /\ rf.contribuicoes.seguro_total = rf_data.contribuicoes.seguro_total
                    /\ rf.contribuicoes.patronal_total = rf_data.contribuicoes.patronal_total
                    /\ rf.contribuicoes.terceiros_total = rf_data.contribuicoes.terceiros_total
                    /\ rf.contribuicoes.total_geral = rf_data.contribuicoes.total_geral

\* the report of t6.pdf, whose table holds a contribution of 02/2024 and a
\* Simples debt of 05/2024: the period is 2024-02, the contribution is
\* retained with its total and the Simples debt is filtered out
C16_Witness ==
    /\ relatorio # NoneOpt
    /\ caminhos = <<15>>
    /\ relatorio[1].periodo = [inicio |-> Some(<<"2","0","2","4","-","0",
            "2">>), fim |-> Some(<<"2","0","2","4","-","0","2">>)]
    /\ Len(UltimaReceita[1].simples_nacional.debitos) = 1
    /\ relatorio[1].receita_federal.simples.debitos = <<>>
    /\ Len(relatorio[1].receita_federal.contribuicoes.detalhes) = 1
    /\ relatorio[1].receita_federal.contribuicoes.seguro_total = 50000

\* without a period the lists pass through: the report of t7.pdf, whose only
\* row is a Simples debt
C16_SemPeriodo ==
    /\ relatorio # NoneOpt
    /\ caminhos = <<16>>
    /\ relatorio[1].periodo.inicio = NoneOpt
    /\ Len(relatorio[1].receita_federal.simples.debitos) = 1

\* ------------------------------------------------------------------------
\* C18
\* ------------------------------------------------------------------------
\* the report as it is handed to aplicar_regra_sem_debito
RelatorioAntesDaRegra == relatorio_consolidado(caminhos, resultados)

\* C18: in every report generated, each section (Simples, SEFAZ, FGTS) whose
\* observacao was set before aplicar_regra_sem_debito holds the same
\* observacao after it, and applying the rule to the report once more changes
\* nothing
C18_ObservacaoNuncaSobrescrita ==
    relatorio # NoneOpt =>
        /\ truthy_str(RelatorioAntesDaRegra.receita_federal.simples.observacao) =>
               relatorio[1].receita_federal.simples.observacao
                   = RelatorioAntesDaRegra.receita_federal.simples.observacao
        /\ truthy_str(RelatorioAntesDaRegra.sefaz.observacao) =>
               relatorio[1].sefaz.observacao = RelatorioAntesDaRegra.sefaz.observacao
        /\ truthy_str(RelatorioAntesDaRegra.fgts.observacao) =>
               relatorio[1].fgts.observacao = RelatorioAntesDaRegra.fgts.observacao
        /\ aplicar_regra_sem_debito(relatorio[1]) = relatorio[1]

\* the failing case of C18: the report of the SEFAZ certificate sf1.pdf,
\* whose observation "Documento e' certida~o" is replaced by the fixed text
C18_ObservacaoDaCertidaoPerdida ==
    /\ relatorio # NoneOpt
    /\ caminhos = <<5>>
    /\ RelatorioAntesDaRegra.sefaz.observacao = Some(ObservacaoCertidao)
    /\ relatorio[1].sefaz.observacao = Some(ObservacaoSemDebitos)

\* the part of C18 that holds: the rule is idempotent on every report
C18_RegraIdempotente ==
    relatorio # NoneOpt => aplicar_regra_sem_debito(relatorio[1]) = relatorio[1]

\* a report on which the rule sets the three observations
C18_RegraAplicada ==
    /\ relatorio # NoneOpt
    /\ caminhos = <<1>>
    /\ RelatorioAntesDaRegra.fgts.observacao = NoneOpt
    /\ relatorio[1].fgts.observacao = Some(ObservacaoSemDebitos)
    /\ relatorio[1].sefaz.observacao = Some(ObservacaoSemDebitos)

\* ------------------------------------------------------------------------
\* C17
\* ------------------------------------------------------------------------
\* the result is one of a document parsed with success
Interpretado(doc) == doc.erro = NoneOpt /\ doc.resultado # NoneOpt

\* the amounts of the patronal and seguro contribution items of a result
PrevidenciaDasContribuicoes(doc) ==
    IF Interpretado(doc) /\ doc.resultado[1].receita_federal # EmptyDict
    THEN LET detalhes == doc.resultado[1].receita_federal[1].contribuicoes.detalhes
         IN  total_dos_itens(detalhes, "patronal", Len(detalhes))
             + total_dos_itens(detalhes, "seguro", Len(detalhes))
    ELSE 0

\* what each total of the form is worth in centavos: the empty one, the one
\* of no digit and the one of two decimal commas do not parse
CentavosDoTotal(valor_total) ==
    IF valor_total = <<"R","$"," ","1",".","0","0","0",",","0","0">> THEN 100000 ELSE 0

\* the parsed totals of the first n SISPAR parcelamentos that are of the
\* regime PREVIDENCIARIO and whose total was supplied
RECURSIVE TotalDosParcelamentos(_, _)
TotalDosParcelamentos(parcelamentos, n) ==
    IF n = 0 THEN 0
    ELSE TotalDosParcelamentos(parcelamentos, n - 1)
         + (IF /\ parcelamentos[n].regime = "PREVIDENCIARIO"
               /\ parcelamentos[n].valor_total_parcelado # NoneOpt
            THEN CentavosDoTotal(parcelamentos[n].valor_total_parcelado[1])
            ELSE 0)

PrevidenciaDoSispar(doc) ==
    IF Interpretado(doc) /\ doc.resultado[1].receita_federal # EmptyDict
    THEN LET sispar == doc.resultado[1].receita_federal[1].sispar
         IN  TotalDosParcelamentos(sispar.parcelamentos, Len(sispar.parcelamentos))
    ELSE 0

RECURSIVE PrevidenciaEsperada(_, _)
PrevidenciaEsperada(docs, n) ==
    IF n = 0 THEN 0
    ELSE PrevidenciaEsperada(docs, n - 1)
         + PrevidenciaDasContribuicoes(docs[n]) + PrevidenciaDoSispar(docs[n])

\* C17: the previdencia_total consolidar_previdencia returns is the sum, over
\* the results of documents parsed with success, of the amounts of the
\* patronal and seguro contribution items and of the parsed total of each
\* SISPAR parcelamento of regime PREVIDENCIARIO whose total was supplied; a
\* parcelamento of another regime, with no total or with a total that does
\* not parse adds nothing
C17_TotalDaPrevidencia ==
    pResumo # NoneOpt =>
        pResumo[1].previdencia_total = PrevidenciaEsperada(pResultados, Len(pResultados))

\* the summary of a report with a social-security plan of R$ 1.000,00 next to
\* a patronal contribution of 1.234,56, and of a report with a plan of
\* another regime and the same total
C17_Witness ==
    /\ pResumo # NoneOpt
    /\ Len(pResultados) = 2
    /\ pResultados[1] = com_valor_total(Documentos[17][<<>>], Some(<<"R","$"," ","1",".","0","0",
            "0",",","0","0">>))
    /\ pResultados[2] = com_valor_total(Documentos[18][<<>>], Some(<<"R","$"," ","1",".","0","0",
            "0",",","0","0">>))
    /\ pResultados[1].resultado[1].receita_federal[1].sispar.parcelamentos[1].regime
           = "PREVIDENCIARIO"
    /\ pResultados[2].resultado[1].receita_federal[1].sispar.parcelamentos[1].regime
           = "SIMPLES NACIONAL"
    /\ pResumo[1].previdencia_total = 123456 + 100000

\* ------------------------------------------------------------------------
\* C21
\* ------------------------------------------------------------------------
\* the path is a file pdfplumber cannot open: the parser's extraction raises
NaoAbre(caminho) ==
    caminho # NoneOpt /\ caminho[1].existe /\ caminho[1].is_file /\ caminho[1].pdf = 0

\* processar_sefaz raises on the text of the SEFAZ path
SefazLevanta ==
    /\ Legivel(tSefazPdf)
    /\ ~LidoSefaz[tSefazPdf[1].pdf].data_encontrada.raised
    /\ LidoSefaz[tSefazPdf[1].pdf].dados_processados.raised

\* C21: when interpretar_todos has returned, each parser whose extraction
\* raised has recorded the error inside the nested record of its agency:
\* receita_federal is a record holding it, fgts.mensagens_sistema and
\* sefaz_estadual.mensagens_sistema hold erro_parser; and what the SEFAZ
\* parser extracted before processar_sefaz raised is still in the record
C21_ErroNoRegistroDoOrgao ==
    tRet # NoneOpt =>
        /\ NaoAbre(tReceitaPdf) => tRet[1].receita_federal # EmptyDict
        /\ NaoAbre(tFgtsPdf) =>
               /\ tRet[1].fgts # EmptyDict
               /\ "erro_parser" \in DOMAIN tRet[1].fgts[1].mensagens_sistema
        /\ (NaoAbre(tSefazPdf) \/ SefazLevanta) =>
               /\ tRet[1].sefaz_estadual # EmptyDict
               /\ "erro_parser" \in DOMAIN tRet[1].sefaz_estadual[1].mensagens_sistema
        /\ SefazLevanta =>
               "data_emissao" \in DOMAIN tRet[1].sefaz_estadual[1].cabecalho_documento

\* the same with the Receita parser's error looked up where the code writes
\* it, in the accumulator's field bloco_receita_federal
C21_ErroNoAcumulador ==
    tRet # NoneOpt =>
        /\ NaoAbre(tReceitaPdf) =>
               /\ tRet[1].bloco_receita_federal
                      = Some(<<"E","r","r","o"," ","n","o"," ","p","a","r","s","e","r",":",
                              " ">> \o MensagemErroAbertura)
               /\ tRet[1].receita_federal = EmptyDict
        /\ NaoAbre(tFgtsPdf) =>
               "erro_parser" \in DOMAIN tRet[1].fgts[1].mensagens_sistema
        /\ (NaoAbre(tSefazPdf) \/ SefazLevanta) =>
               "erro_parser" \in DOMAIN tRet[1].sefaz_estadual[1].mensagens_sistema
        /\ SefazLevanta =>
               "data_emissao" \in DOMAIN tRet[1].sefaz_estadual[1].cabecalho_documento

\* the three parsers ran, the first two on files that cannot be opened and
\* the SEFAZ parser on the statement processar_sefaz raises on
C21_TresErros ==
    /\ tRet # NoneOpt
    /\ NaoAbre(tReceitaPdf) /\ NaoAbre(tFgtsPdf) /\ SefazLevanta
    /\ Len(chamadas) = 3

\* ------------------------------------------------------------------------
\* C22
\* ------------------------------------------------------------------------
\* C22: when the action "Ler PDFs" has ended, however it ended, no temporary
\* file staged for an upload is left on disk
C22_NenhumTemporarioResta ==
    lSaida # NoneOpt => lTmp = {}

\* when the action ran to its end, the staged files were removed
C22_LimpezaAoConcluir ==
    lSaida = Some("concluida") => lTmp = {} /\ lResultado # NoneOpt

\* the staging of the SEFAZ upload failed and the two files staged before it
\* are left on disk
C22_TemporariosDeixados ==
    /\ lSaida = Some("excecao")
    /\ lUploads.sefaz # NoneOpt
    /\ lTmp = {"receita", "fgts"}

\* the action ran to its end on three uploads, the first one no PDF
C22_TresUploadsLidos ==
    /\ lSaida = Some("concluida")
    /\ lUploads.receita = Some(0) /\ lUploads.fgts # NoneOpt /\ lUploads.sefaz # NoneOpt
    /\ lTmp = {}

\* ------------------------------------------------------------------------
\* C23
\* ------------------------------------------------------------------------
\* C23: the text formatar_moeda_br gives for an amount of two decimals
\* converts back to that amount
C23_ConverterInverteFormatar ==
    (mValor # NoneOpt /\ mVolta # NoneOpt) => mVolta[1] = mValor[1]

\* 1.234.567,89 was formatted and converted back
C23_Witness ==
    /\ mValor = Some(123456789)
    /\ mTexto = Some(<<"R","$"," ","1",".","2","3","4",".","5","6","7",",","8","9">>)
    /\ mVolta = Some(123456789)

\* ------------------------------------------------------------------------
\* C25
\* ------------------------------------------------------------------------
\* the text holds no number: it has no digit, or more than one decimal comma
SemNumero(s) == so_chars(s, Digits) = <<>> \/ count(s, ",") > 1

\* C25: converter_valor_br_para_float returns, for every text, a number that
\* is not negative (no exception leaves it), and 0 for a text that holds no
\* number
C25_ConverterTotal ==
    (mTexto # NoneOpt /\ mVolta # NoneOpt) =>
        /\ mVolta[1] # Erro
        /\ mVolta[1] >= 0
        /\ SemNumero(mTexto[1]) => mVolta[1] = 0

\* a text of three commas was converted to 0, and so was a text of
\* separators only
C25_Witness ==
    /\ mValor = NoneOpt
    /\ mTexto \in {Some(<<"1",",","2",",","3">>), Some(<<".",",",".">>)}
    /\ mVolta = Some(0)

\* a signed amount was converted to the amount without the sign
C25_SinalIgnorado ==
    /\ mTexto = Some(<<"-","5",",","0","0">>)
    /\ mVolta = Some(500)

\* ------------------------------------------------------------------------
\* C26
\* ------------------------------------------------------------------------
\* the text is digits in groups of three with a dot between the groups, and
\* no decimal comma
GruposDeMilhar == {<<"1",".","0","0","0">>, <<"1","2",".","3","4","5">>, <<"1",".","0","0","0",
        ".","0","0","0">>}

\* C26: a dot-grouped amount with no decimal comma converts to the amount of
\* its digits, the dots being thousands separators
C26_PontoSeparaMilhares ==
    (mTexto # NoneOpt /\ mVolta # NoneOpt /\ mTexto[1] \in GruposDeMilhar) =>
        mVolta[1] = 100 * int_de(so_chars(mTexto[1], Digits))

\* 1.000 was converted to 1,00, and 1.000,00 to 1.000,00
C26_MilConvertidoEmUm ==
    /\ mTexto = Some(<<"1",".","0","0","0">>)
    /\ mVolta = Some(100)

\* with two dots the dots are thousands separators
C26_DoisPontos ==
    /\ mTexto = Some(<<"1",".","0","0","0",".","0","0","0">>)
    /\ mVolta = Some(100000000)

\* ------------------------------------------------------------------------
\* C24
\* ------------------------------------------------------------------------
\* C24: normalizar_competencia applied to a value it returned returns that
\* value
C24_NormalizarIdempotente ==
    nDeNovo # NoneOpt => nDeNovo[1] = nRes[1]

\* a month and year between a space and a letter was normalized to the year
\* and month, and that value normalized to itself
C24_Witness ==
    /\ nComp = <<" ","0","1","/","2","0","2","4","x">>
    /\ nRes = Some(Some(<<"2","0","2","4","-","0","1">>))
    /\ nDeNovo = Some(Some(<<"2","0","2","4","-","0","1">>))

\* a bare year was normalized to its January, and so was the result
C24_AnoNormalizado ==
    /\ nComp = <<"2","0","2","4">>
    /\ nRes = Some(Some(<<"2","0","2","4","-","0","1">>))
    /\ nDeNovo = nRes

\* a text that is no competencia gives None
C24_SemValor ==
    /\ nComp = <<"1","/","2","0","2","4">>
    /\ nRes = Some(NoneOpt)

\* ------------------------------------------------------------------------
\* C27
\* ------------------------------------------------------------------------
\* the text, its whitespace collapsed, holds FRONTEIRA or ICMS ANTECIPADO
\* followed by a competency MM/AAAA and an amount
FronteiraComCompetenciaEValor ==
    re_search(padrao_fronteira, colapsa(juntar(sTexto), Whitespace, 1)).alt # 0

\* the structured extraction of the FRONTEIRAS block gives no item
BlocoFronteirasSemItem ==
    \/ detectar_situacao(text_lower(normalize_text(sTexto))) # "IRREGULAR"
    \/ extrair_fronteiras(sTexto) = <<>>

\* the case of the fallback: a statement, no item from the block, and the
\* text holding a border-tax entry
CasoDoFallbackFronteira ==
    /\ identificar_tipo_documento(sTexto, sTabelas) = "extrato"
    /\ BlocoFronteirasSemItem
    /\ FronteiraComCompetenciaEValor

\* C27: in the case of the fallback processar_sefaz returns, with at least
\* one border-tax item of a competencia and an amount and tem_em_aberto true
C27_FallbackFronteira ==
    (sRes # NoneOpt /\ CasoDoFallbackFronteira) =>
        /\ ~sRes[1].raised
        /\ sRes[1].detalhes.fronteira.tem_em_aberto
        /\ sRes[1].detalhes.fronteira.itens # <<>>

\* processar_sefaz raised in the case of the fallback
C27_FallbackLevanta ==
    /\ sRes # NoneOpt
    /\ CasoDoFallbackFronteira
    /\ sTexto = <<LinhasFronteira[5], LinhasFronteira[1]>>
    /\ sTabelas = <<>>
    /\ sRes[1].raised

\* in the case of the fallback processar_sefaz always raises
C27_FallbackSempreLevanta ==
    (sRes # NoneOpt /\ CasoDoFallbackFronteira) => sRes[1].raised

\* the items of the structured block are returned when the block has some
C27_BlocoComItens ==
    /\ sRes # NoneOpt
    /\ ~sRes[1].raised
    /\ sRes[1].detalhes.fronteira.tem_em_aberto
    /\ Len(sRes[1].detalhes.fronteira.itens) = 1

\* ------------------------------------------------------------------------
\* C28
\* ------------------------------------------------------------------------
\* the block holds a marker "not social-security" and not the two words of
\* Simples Nacional
BlocoNaoPrevidenciario ==
    /\ \/ text_in(<<"N","A","O"," ","P","R","E","V","I","D","E","N","C","I","A","R">>,
            text_upper(rTexto))
       \/ text_in(<<"N","A~","O"," ","P","R","E","V","I","D","E","N","C","I","A","R">>,
               text_upper(rTexto))
    /\ ~(text_in(<<"S","I","M","P","L","E","S">>, text_upper(rTexto)) /\ text_in(<<"N","A","C",
                                                                         "I","O","N","A","L">>,
                                                                         text_upper(rTexto)))

\* the block holds a marker "social-security" and no "not", and not the two
\* words of Simples Nacional
BlocoSoPrevidenciario ==
    /\ text_in(<<"P","R","E","V","I","D","E","N","C","I","A","R">>, text_upper(rTexto))
    /\ ~text_in(<<"N","A","O"," ","P","R","E","V","I","D","E","N","C","I","A","R">>,
            text_upper(rTexto))
    /\ ~text_in(<<"N","A~","O"," ","P","R","E","V","I","D","E","N","C","I","A","R">>,
            text_upper(rTexto))
    /\ ~text_in(<<"N","A~","O"," ","P","R","E","V","I","D","E","N","C","I","A'","R","I","A">>,
            text_upper(rTexto))
    /\ ~(text_in(<<"S","I","M","P","L","E","S">>, text_upper(rTexto)) /\ text_in(<<"N","A","C",
                                                                         "I","O","N","A","L">>,
                                                                         text_upper(rTexto)))

\* C28: the plan of a block marked "not social-security" has the regime NAO
\* PREVIDENCIARIO, and with the total the reviewer typed it adds nothing to
\* the social-security total; the plan of a block marked social-security
\* only has the regime PREVIDENCIARIO
C28_RegimeNaoPrevidenciario ==
    rRes # NoneOpt =>
        /\ BlocoNaoPrevidenciario =>
               /\ \A k \in 1..Len(rRes[1].sispar.parcelamentos) :
                      rRes[1].sispar.parcelamentos[k].regime = "NAO PREVIDENCIARIO"
               /\ formReceita # NoneOpt =>
                      soma_do_sispar(formReceita[1].sispar.parcelamentos, 1) = 0
        /\ BlocoSoPrevidenciario =>
               \A k \in 1..Len(rRes[1].sispar.parcelamentos) :
                   rRes[1].sispar.parcelamentos[k].regime = "PREVIDENCIARIO"

\* the part on the block marked social-security only
C28_SoPrevidenciario ==
    (rRes # NoneOpt /\ BlocoSoPrevidenciario) =>
        /\ rRes[1].sispar.parcelamentos # <<>>
        /\ \A k \in 1..Len(rRes[1].sispar.parcelamentos) :
               rRes[1].sispar.parcelamentos[k].regime = "PREVIDENCIARIO"

\* the plan of a block marked NAO PREVIDENCIARIO got the regime PREVIDENCIARIO
\* and its typed total of R$ 1.000,00 is counted
C28_NaoPrevidenciarioContado ==
    /\ rTexto = <<LinhasParcelamentos[1], LinhasRegime[1]>>
    /\ rRes # NoneOpt
    /\ rRes[1].sispar.parcelamentos[1].regime = "PREVIDENCIARIO"
    /\ formReceita # NoneOpt
    /\ soma_do_sispar(formReceita[1].sispar.parcelamentos, 1) = 100000

\* the marker with the accented feminine form gives NAO PREVIDENCIARIO
C28_FormaAcentuada ==
    /\ rTexto = <<LinhasParcelamentos[1], LinhasRegime[3]>>
    /\ rRes # NoneOpt
    /\ rRes[1].sispar.parcelamentos[1].regime = "NAO PREVIDENCIARIO"

\* ------------------------------------------------------------------------
\* C29
\* ------------------------------------------------------------------------
\* the border-tax items processar_sefaz extracted from the PDF of the
\* session, none when it raised
FronteirasExtraidas ==
    LET p == processar_sefaz(sTexto, sTabelas)
    IN  IF p.raised THEN <<>> ELSE p.detalhes.fronteira.itens

\* the amount of an extracted item: valor_original of an item of the
\* FRONTEIRAS block, valor of an item of the fallback
valor_extraido(item) ==
    IF "valor_original" \in DOMAIN item THEN item.valor_original ELSE item.valor

RECURSIVE soma_extraida(_)
soma_extraida(itens) ==
    IF itens = <<>> THEN 0 ELSE valor_extraido(itens[1]) + soma_extraida(Tail(itens))

\* C29: after interpretar_pdf_sefaz every border-tax item processar_sefaz
\* extracted is in pendencias_identificadas.icms_fronteira_antecipado with
\* its extracted amount, resumo_financeiro.total_icms_fronteira is the sum of
\* the extracted amounts and total_geral_consolidado includes it
C29_FronteirasNasPendencias ==
    chamadas # <<>> =>
        LET e == resultado.sefaz_estadual[1]
            pend == e.pendencias_identificadas.icms_fronteira_antecipado
        IN  /\ Len(pend) = Len(FronteirasExtraidas)
            /\ \A i \in 1..Len(pend) : pend[i].valor_total = valor_extraido(FronteirasExtraidas[i])
            /\ FronteirasExtraidas # <<>> =>
                   /\ e.resumo_financeiro.total_icms_fronteira = soma_extraida(FronteirasExtraidas)
                   /\ e.resumo_financeiro.total_geral_consolidado >= soma_extraida(FronteirasExtraidas)

\* what does hold: one entry per extracted item, the sum of the entries in
\* total_icms_fronteira, and that total inside total_geral_consolidado
C29_UmaPendenciaPorItem ==
    chamadas # <<>> =>
        LET e == resultado.sefaz_estadual[1]
            pend == e.pendencias_identificadas.icms_fronteira_antecipado
        IN  /\ Len(pend) = Len(FronteirasExtraidas)
            /\ FronteirasExtraidas # <<>> =>
                   /\ e.resumo_financeiro.total_icms_fronteira = soma_campo(pend, "valor_total")
                   /\ e.resumo_financeiro.total_geral_consolidado
                          = e.resumo_financeiro.total_ipva + e.resumo_financeiro.total_icms_fronteira
                            + e.resumo_financeiro.total_icms_normal + e.resumo_financeiro.total_divida_ativa

\* the item of R$ 899,93 of the FRONTEIRAS block is in the pendencias with
\* the amount 0,00 and no period, and the total is 0,00
C29_ValorPerdido ==
    /\ chamadas # <<>>
    /\ sTexto = <<LinhasFronteira[3], LinhasFronteira[4]>>
    /\ FronteirasExtraidas = <<[dae |-> <<"9","6","9","3","4","8","9">>, vencimento |-> <<"2","8",
            "/","0","1","/","2","0","2","5">>, valor_original |-> 89993]>>
    /\ resultado.sefaz_estadual[1].pendencias_identificadas.icms_fronteira_antecipado[1].valor_total = 0
    /\ resultado.sefaz_estadual[1].pendencias_identificadas.icms_fronteira_antecipado[1].periodo_referencia = NoneOpt
    /\ resultado.sefaz_estadual[1].resumo_financeiro.total_icms_fronteira = 0
    /\ resultado.sefaz_estadual[1].resumo_financeiro.total_geral_consolidado = 0

\* ------------------------------------------------------------------------
\* C30
\* ------------------------------------------------------------------------
\* the accumulated text of the report's documents names a Parcelamento
\* Unificado
TextoComUnificado ==
    text_in(<<"P","A","R","C","E","L","A","M","E","N","T","O"," ","U","N","I","F","I","C","A","D",
            "O">>,
            text_upper(texto_completo_global(caminhos, resultados, 1)))

\* C30: when the accumulated text contains PARCELAMENTO UNIFICADO and the
\* social-security total of the returned report is greater than zero,
\* pgfn.parcelamento_unificado.observacao reports that total
C30_ObservacaoDoUnificado ==
    (relatorio # NoneOpt /\ TextoComUnificado /\ relatorio[1].resumo.previdencia_total > 0) =>
        relatorio[1].pgfn.parcelamento_unificado.observacao
            = Some(<<"V","a","l","o","r"," ","p","r","e","v","i","d","e","n","c","i","a'","r","i",
                    "o"," ","c","o","n","s","o","l","i","d","a","d","o",":"," ">>
                   \o formatar_moeda_br(relatorio[1].resumo.previdencia_total))

\* what the code does: no report carries an observation of the Parcelamento
\* Unificado
C30_ObservacaoNuncaEscrita ==
    relatorio # NoneOpt => relatorio[1].pgfn.parcelamento_unificado.observacao = NoneOpt

\* the report of the Receita PDF that names a Parcelamento Unificado and has
\* a social-security debt of R$ 1.234,56: the plan is detected, the total is
\* in resumo, the observation is None
C30_UnificadoSemObservacao ==
    /\ caminhos = <<Len(PDFs) - 1>>
    /\ relatorio # NoneOpt
    /\ relatorio[1].pgfn.parcelamento_unificado.tem
    /\ relatorio[1].pgfn.parcelamento_unificado.situacao = Some(<<"R","E","G","U","L","A","R">>)
    /\ relatorio[1].resumo.previdencia_total = 123456
    /\ relatorio[1].pgfn.parcelamento_unificado.observacao = NoneOpt

\* the plan named in one document, the debt in another
C30_UnificadoDeOutroDocumento ==
    /\ caminhos = <<1, Len(PDFs)>>
    /\ relatorio # NoneOpt
    /\ relatorio[1].pgfn.parcelamento_unificado.tem
    /\ relatorio[1].pgfn.parcelamento_unificado.situacao = Some(<<"E","M"," ","A","T","R","A","S",
            "O">>)
    /\ relatorio[1].resumo.previdencia_total = 123456

====
